---- MODULE Spec2Model ----
(***************************************************************************)
(* Model of the tenant-creation form (AddTenantForm) and of the            *)
(* organization discovery assigner (AddOrganizationDiscoveryDomains) of    *)
(* src/features/admin.tenants.v1/components/add-tenant/add-tenant-form.tsx *)
(*                                                                         *)
(* The two components share no state.  Each part has its specification:   *)
(*   SpecDomain     the memoized async validator of the tenant domain      *)
(*   SpecEmail      the multi-value email-domain field of the assigner     *)
(*   SpecOrg        the paginated organization loader of the assigner      *)
(*   SpecDebounce   the debounce of the organization name input            *)
(*   SpecDiscovery  the list of organizations offered for selection        *)
(*   SpecSubmit     the submission of the assigner                         *)
(* A specification leaves the variables of the other parts at their        *)
(* initial values.                                                         *)
(***************************************************************************)
EXTENDS Integers, Sequences, FiniteSets, TLC

VARIABLES
    \* ---- AddTenantForm: domain field ----
    cfg,            \* configuration captured by the validateDomain closure
    storeConfig,    \* state.config.ui.multiTenancy in the store, as the selectors read it
    storeSeen,      \* history: the store's configuration when the body last ran for v
    domainValue,    \* current value of the "domain" field
    cache,          \* lodash memoize cache of validateDomain: value -> promise
    calls,          \* history: validateDomain(v) calls made (saturating)
    bodyRuns,       \* history: runs of the memoized async body for v
    remoteCalls,    \* history: getTenantDomainAvailability(v) invocations
    remoteAnswer,   \* history: how the remote call for v ended
    \* ---- AddOrganizationDiscoveryDomains: email-domain field ----
    emailDomains,   \* contents of the array held in the emailDomains state
    emailPending,   \* validateEmailDomain calls suspended at their await
    isEmailDomainDataError,
    isEmailDomainAvailableError,
    emailPassed,    \* history: entries a remote check answered available for
    emailRejected,  \* history: entries whose remote check rejected
    emailLast,      \* history: the last event of the field
    \* ---- AddOrganizationDiscoveryDomains: organization loader ----
    organizations,  \* accumulated organizations
    hasMoreOrganizations,
    inputValue,     \* filter text
    afterCursor,
    params,         \* parameters handed to useGetOrganizations
    orgRequests,    \* page requests in flight, by (filter, after)
    orgLast,        \* history: the last event of the loader
    orgStale,       \* history: a page of another filter text was appended
    orgAlert,       \* history: the alerts the last event of the loader raised
    \* ---- AddOrganizationDiscoveryDomains: debounce of handleInputChange ----
    debounced,      \* pending call of the debounced function of the last render
    debounceOrphans, \* pending calls of the debounced functions of earlier renders
    burst,          \* history: the input events and callback runs of the burst
    \* ---- AddOrganizationDiscoveryDomains: discoverable organizations ----
    discoverableOrganizations, \* data of useGetOrganizationDiscovery
    \* ---- AddOrganizationDiscoveryDomains: submission ----
    organizationName, \* form value of the organization name field
    submitting,     \* final-form: a submission is awaited
    submitDisabled, \* "disabled" of the submit button as it was last rendered
    submitRequests, \* addOrganizationEmailDomain requests in flight
    submitAlert,    \* history: the alert the last event of the submission raised
    navigatedTo,    \* organization whose page history.push went to
    \* ---- AddTenantForm: the form (the domain field is domainValue) ----
    userNameValidationConfig, \* getUsernameConfiguration(validationData)
    passwordValidationConfig, \* getConfiguration(validationData)
    formValues,     \* final-form: values of the fields other than domain
    recordLevelErrors, \* what handleValidate returned for the current values
    formErrors,     \* final-form: formState.errors
    validationRuns, \* final-form: asyncValidationPromises that are pending
    latestRun,      \* key of the last validation run while it is pending, else 0
    validationRejected, \* an asyncValidationPromise rejected (it is never cleared)
    deferredSubmits, \* submits that wait for the validation runs of a set of keys
    latestValidation, \* history: values and field validator results of the last run
    onSubmitCount,  \* history: calls of props.onSubmit (saturating)
    lastPayload,    \* history: the payload of the last call of props.onSubmit
    generatorCall,  \* history: the arguments of the last generatePassword call
    formLast,       \* history: the last event of the form
    \* ---- generateTheme ----
    branding,       \* the branding argument of generateTheme
    themeResult     \* what the last call of generateTheme did

domainVars == <<cfg, storeConfig, storeSeen, domainValue, cache, calls, bodyRuns,
                remoteCalls, remoteAnswer>>

emailVars == <<emailDomains, emailPending, isEmailDomainDataError,
               isEmailDomainAvailableError, emailPassed, emailRejected, emailLast>>

orgVars == <<organizations, hasMoreOrganizations, inputValue, afterCursor, params,
             orgRequests, orgLast, orgStale, orgAlert>>

debounceVars == <<debounced, debounceOrphans, burst>>

discoveryVars == <<discoverableOrganizations>>

\* submitDisabled is written by every event that renders the button.
submitVars == <<organizationName, submitting, submitRequests, submitAlert, navigatedTo>>

formVars == <<userNameValidationConfig, passwordValidationConfig, formValues,
              recordLevelErrors, formErrors, validationRuns, latestRun,
              validationRejected, deferredSubmits, latestValidation, onSubmitCount,
              lastPayload, generatorCall, formLast>>

themeVars == <<branding, themeResult>>

vars == <<domainVars, emailVars, orgVars, debounceVars, discoveryVars, submitVars,
          submitDisabled, formVars, themeVars>>

\* The variables of the other parts, which an action of a part leaves alone.
NotDomainVars == <<emailVars, orgVars, debounceVars, discoveryVars, submitVars,
                   submitDisabled, formVars, themeVars>>

NotEmailVars == <<domainVars, orgVars, debounceVars, discoveryVars, submitVars, formVars, themeVars>>

NotOrgVars == <<domainVars, emailVars, debounceVars, discoveryVars, submitVars,
                submitDisabled, formVars, themeVars>>

NotDebounceVars == <<domainVars, emailVars, discoveryVars, submitVars, submitDisabled,
                     formVars, themeVars>>

NotDiscoveryVars == <<domainVars, emailVars, orgVars, debounceVars, submitVars,
                      submitDisabled, formVars, themeVars>>

NotSubmitVars == <<domainVars, emailVars, debounceVars, discoveryVars, formVars, themeVars>>

\* The form writes the domain part too: validateDomain is one of its
\* field validators.
NotFormVars == <<emailVars, orgVars, debounceVars, discoveryVars, submitVars,
                 submitDisabled, themeVars>>

NotThemeVars == <<domainVars, emailVars, orgVars, debounceVars, discoveryVars, submitVars,
                  submitDisabled, formVars>>

(***************************************************************************)
(* Bounds                                                                  *)
(***************************************************************************)
MaxLen == 2            \* longest domain string typed
MaxCached == 2         \* distinct non-empty domain values typed in a session
MaxCount == 2          \* runs of the validator body / remote calls per value
MaxDomains == 2        \* longest email-domain list
MaxPending == 2        \* email-domain validations awaiting their remote answer
MaxPage == 1           \* organizations in one page of a response
MaxOrgs == 2           \* accumulated organizations
MaxInFlight == 2       \* page requests in flight
MaxBurst == 2          \* input events in one burst
MaxOrphans == 1        \* pending calls of debounced functions of earlier renders
MaxSubmits == 2        \* addOrganizationEmailDomain requests in flight
MaxRuns == 1           \* validation runs of the tenant form pending at once
MaxAttempts == 1       \* submits of the tenant form that wait for validation runs

(***************************************************************************)
(* Strings are sequences of one-character strings.                         *)
(***************************************************************************)
Alphabet == {".", "a", "_"}

DomainValues == UNION {[1..n -> Alphabet] : n \in 0..MaxLen}

\* String.prototype.indexOf / lastIndexOf for a one-character needle:
\* zero-based index, -1 when absent.
IndexOf(s, ch) ==
    IF \E i \in 1..Len(s) : s[i] = ch
    THEN (CHOOSE i \in 1..Len(s) : s[i] = ch /\ \A j \in 1..(i - 1) : s[j] # ch) - 1
    ELSE -1

LastIndexOf(s, ch) ==
    IF \E i \in 1..Len(s) : s[i] = ch
    THEN (CHOOSE i \in 1..Len(s) : s[i] = ch /\ \A j \in (i + 1)..Len(s) : s[j] # ch) - 1
    ELSE -1

\* The configured regular expressions the model draws from.  "" is "not
\* configured" (falsy in the code's if).
NoRegex == ""
DomainRegexes == {NoRegex, "^[a.]+$"}
IllegalCharRegexes == {NoRegex, "[_]"}

\* new RegExp(pattern).test(value) for the patterns above.
RegExpTest(pattern, s) ==
    CASE pattern = "^[a.]+$" -> Len(s) >= 1 /\ \A i \in 1..Len(s) : s[i] \in {"a", "."}
      [] pattern = "[_]"     -> \E i \in 1..Len(s) : s[i] = "_"
      [] pattern = "^[a@]+$" -> Len(s) >= 1 /\ \A i \in 1..Len(s) : s[i] \in {"a", "@"}
      [] pattern = "[^a-zA-Z0-9 ]" ->
             \E i \in 1..Len(s) : s[i] \notin {"a", "A", "C", "0", " "}
      [] OTHER               -> FALSE

(***************************************************************************)
(* validateDomain                                                          *)
(***************************************************************************)
NoError == "undefined"
DomainMandatoryExtension == "domainMandatoryExtension"
DomainInvalidPattern == "domainInvalidPattern"
DomainStartingWithDot == "domainStartingWithDot"
DomainInvalidCharPattern == "domainInvalidCharPattern"
DomainUnavailable == "domainUnavailable"

Configs == [mandatory : BOOLEAN, regex : DomainRegexes, illegal : IllegalCharRegexes]

\* Mutant: the leading-dot rule is tested before the configured pattern.
SyncError_DotBeforePattern(c, value) ==
    IF c.mandatory /\ LastIndexOf(value, ".") <= 0 THEN DomainMandatoryExtension
    ELSE IF IndexOf(value, ".") = 0 THEN DomainStartingWithDot
    ELSE IF c.regex # NoRegex /\ ~RegExpTest(c.regex, value) THEN DomainInvalidPattern
    ELSE IF c.illegal # NoRegex /\ RegExpTest(c.illegal, value) THEN DomainInvalidCharPattern
    ELSE NoError

\* Mutant: the illegal-characters rule is missing.
SyncError_NoIllegalRule(c, value) ==
    IF c.mandatory /\ LastIndexOf(value, ".") <= 0 THEN DomainMandatoryExtension
    ELSE IF c.regex # NoRegex /\ ~RegExpTest(c.regex, value) THEN DomainInvalidPattern
    ELSE IF IndexOf(value, ".") = 0 THEN DomainStartingWithDot
    ELSE NoError

\* Mutant: the leading-dot rule is missing.
SyncError_NoLeadingDotRule(c, value) ==
    IF c.mandatory /\ LastIndexOf(value, ".") <= 0 THEN DomainMandatoryExtension
    ELSE IF c.regex # NoRegex /\ ~RegExpTest(c.regex, value) THEN DomainInvalidPattern
    ELSE IF c.illegal # NoRegex /\ RegExpTest(c.illegal, value) THEN DomainInvalidCharPattern
    ELSE NoError

\* Mutant: a pattern that is not configured fails every value.
SyncError_MissingPatternFails(c, value) ==
    IF c.mandatory /\ LastIndexOf(value, ".") <= 0 THEN DomainMandatoryExtension
    ELSE IF c.regex = NoRegex \/ ~RegExpTest(c.regex, value) THEN DomainInvalidPattern
    ELSE IF IndexOf(value, ".") = 0 THEN DomainStartingWithDot
    ELSE IF c.illegal # NoRegex /\ RegExpTest(c.illegal, value) THEN DomainInvalidCharPattern
    ELSE NoError

\* The synchronous rules of validateDomain for a non-empty value, in the
\* order of the code; NoError when the code goes on to the remote call.
SyncError(c, value) ==
    IF c.mandatory /\ LastIndexOf(value, ".") <= 0 THEN DomainMandatoryExtension
    ELSE IF c.regex # NoRegex /\ ~RegExpTest(c.regex, value) THEN DomainInvalidPattern
    ELSE IF IndexOf(value, ".") = 0 THEN DomainStartingWithDot
    ELSE IF c.illegal # NoRegex /\ RegExpTest(c.illegal, value) THEN DomainInvalidCharPattern
    ELSE NoError

\* How getTenantDomainAvailability(value) can end.
RemoteOutcomes == {"true", "false", "reject"}

\* Mutant: the catch block leaves isAvailable at its initial value.
AvailabilityResult_FailOpen(outcome) ==
    IF outcome = "false" THEN DomainUnavailable ELSE NoError

\* try { isAvailable = await ... } catch { isAvailable = false };
\* if (!isAvailable) return domainUnavailable.
AvailabilityResult(outcome) ==
    LET isAvailable == IF outcome = "reject" THEN FALSE ELSE outcome = "true"
    IN  IF ~isAvailable THEN DomainUnavailable ELSE NoError

\* Maps are kept as functions on the keys set so far (a JavaScript Map).
MapGet(m, key, default) == IF key \in DOMAIN m THEN m[key] ELSE default

MapSet(m, key, x) == [k \in DOMAIN m \cup {key} |-> IF k = key THEN x ELSE m[k]]

EmptyMap == [k \in {} |-> 0]

\* Mutant: only settled results are found in the cache (the result, not
\* the promise, is memoized).
MemoizeHas_SettledOnly(c, key) == key \in DOMAIN c /\ c[key] # "pending"

\* lodash memoize: cache.has(key), the key being the first argument.
MemoizeHas(c, key) == key \in DOMAIN c

\* History counter of calls: 0, 1, 2 = more than once.
Bump(n) == IF n < 2 THEN n + 1 ELSE n

\* Mutant: the body reads the configuration of the store of the moment.
ValidateDomainCall_ReadsStore(value) ==
    /\ calls' = MapSet(calls, value, Bump(MapGet(calls, value, 0)))
    /\ IF MemoizeHas(cache, value)
       THEN UNCHANGED <<cache, bodyRuns, remoteCalls, remoteAnswer, storeSeen>>
       ELSE /\ MapGet(bodyRuns, value, 0) < MaxCount
            /\ bodyRuns' = MapSet(bodyRuns, value, MapGet(bodyRuns, value, 0) + 1)
            /\ storeSeen' = MapSet(storeSeen, value, storeConfig)
            /\ IF value = <<>>
               THEN /\ cache' = MapSet(cache, value, NoError)
                    /\ UNCHANGED <<remoteCalls, remoteAnswer>>
               ELSE IF SyncError(storeConfig, value) # NoError
               THEN /\ cache' = MapSet(cache, value, SyncError(storeConfig, value))
                    /\ UNCHANGED <<remoteCalls, remoteAnswer>>
               ELSE /\ cache' = MapSet(cache, value, "pending")
                    /\ remoteCalls' = MapSet(remoteCalls, value, MapGet(remoteCalls, value, 0) + 1)
                    /\ remoteAnswer' = MapSet(remoteAnswer, value, "none")

\* One call validateDomain(value): the memoize wrapper and, on a miss, the
\* async body up to its first await.  A cache entry is the promise the body
\* returned: "pending", or the value it resolved with.
ValidateDomainCall(value) ==
    /\ calls' = MapSet(calls, value, Bump(MapGet(calls, value, 0)))
    /\ IF MemoizeHas(cache, value)
       THEN UNCHANGED <<cache, bodyRuns, remoteCalls, remoteAnswer, storeSeen>>
       ELSE /\ MapGet(bodyRuns, value, 0) < MaxCount
            /\ bodyRuns' = MapSet(bodyRuns, value, MapGet(bodyRuns, value, 0) + 1)
            /\ storeSeen' = MapSet(storeSeen, value, storeConfig)
            /\ IF value = <<>>
               THEN /\ cache' = MapSet(cache, value, NoError)
                    /\ UNCHANGED <<remoteCalls, remoteAnswer>>
               ELSE IF SyncError(cfg, value) # NoError
               THEN /\ cache' = MapSet(cache, value, SyncError(cfg, value))
                    /\ UNCHANGED <<remoteCalls, remoteAnswer>>
               ELSE /\ cache' = MapSet(cache, value, "pending")
                    /\ remoteCalls' = MapSet(remoteCalls, value, MapGet(remoteCalls, value, 0) + 1)
                    /\ remoteAnswer' = MapSet(remoteAnswer, value, "none")

TypedValues == DOMAIN calls \ {<<>>}

MayType(value) == value \in TypedValues \/ Cardinality(TypedValues) < MaxCached

\* The user appends a character to the domain field; the form library runs
\* the field's validator on the new value.
TypeChar(ch) ==
    /\ Len(domainValue) < MaxLen
    /\ MayType(Append(domainValue, ch))
    /\ domainValue' = Append(domainValue, ch)
    /\ ValidateDomainCall(domainValue')
    /\ UNCHANGED <<cfg, storeConfig, NotDomainVars>>

\* The user deletes the last character.
Backspace ==
    /\ Len(domainValue) > 0
    /\ domainValue' = SubSeq(domainValue, 1, Len(domainValue) - 1)
    /\ ValidateDomainCall(domainValue')
    /\ UNCHANGED <<cfg, storeConfig, NotDomainVars>>

\* Another field of the form changes: the form library runs every field
\* validator again, validateDomain with the unchanged domain value.
Revalidate ==
    /\ ValidateDomainCall(domainValue)
    /\ UNCHANGED <<cfg, storeConfig, domainValue, NotDomainVars>>

\* The multi-tenancy configuration in the store changes to c: the
\* selectors hand the new values to the next render, which builds a new
\* memoized validator that useCallback, its dependency list being empty,
\* throws away.
StoreConfigChanges(c) ==
    /\ c # storeConfig
    /\ storeConfig' = c
    /\ UNCHANGED <<cfg, storeSeen, domainValue, cache, calls, bodyRuns, remoteCalls,
                   remoteAnswer, NotDomainVars>>

\* getTenantDomainAvailability(value) resolves or rejects and the async
\* body runs to its end.
RemoteSettleCallback(value, outcome) ==
    /\ MapGet(cache, value, "absent") = "pending"
    /\ cache' = MapSet(cache, value, AvailabilityResult(outcome))
    /\ remoteAnswer' = MapSet(remoteAnswer, value, outcome)
    /\ UNCHANGED <<cfg, storeConfig, storeSeen, domainValue, calls, bodyRuns, remoteCalls>>

RemoteSettle(value, outcome) ==
    /\ RemoteSettleCallback(value, outcome)
    /\ UNCHANGED NotDomainVars

\* The first render reads the configuration from the store and
\* useCallback keeps the validator built in that render.
DomainInit ==
    /\ storeConfig = cfg
    /\ storeSeen = EmptyMap
    /\ domainValue = <<>>
    /\ cache = EmptyMap
    /\ calls = EmptyMap
    /\ bodyRuns = EmptyMap
    /\ remoteCalls = EmptyMap
    /\ remoteAnswer = EmptyMap

(***************************************************************************)
(* Email-domain multi-value field                                          *)
(*                                                                         *)
(* The Autocomplete is uncontrolled: it keeps the array it last passed to  *)
(* onChange as its value and builds the next one as a copy of it, so the   *)
(* array a change event delivers is a new object.  validateEmailDomain     *)
(* pops from the array it was called with; that array is the one in the    *)
(* emailDomains state only until the next change event ("live").           *)
(***************************************************************************)
EmailEntries == {"a.com", "b.org", "not-a-domain"}

\* FormValidation.domain: the general domain grammar, on the entries above.
FormValidationDomain(e) == e \in {"a.com", "b.org"}

\* How checkEmailDomainAvailable(emailDomain) can end: it resolves with
\* available true or false, or rejects.
EmailOutcomes == {"true", "false", "reject"}

\* checkEmailDomainAvailability: available starts true, then() stores
\* response.available, catch() raises an alert and leaves it.
CheckEmailDomainAvailability(outcome) ==
    IF outcome = "reject" THEN TRUE ELSE outcome = "true"

Pop(list) == SubSeq(list, 1, Len(list) - 1)

RemoveAt(list, i) == SubSeq(list, 1, i - 1) \o SubSeq(list, i + 1, Len(list))

Stale(pending) == [k \in 1..Len(pending) |-> [pending[k] EXCEPT !.live = FALSE]]

\* History record of an event of the field: what the user or the remote
\* service did, the state before it, and what the handler did.
EmailEvent(op, entry, validated, remote, outcome, live) ==
    [op |-> op, entry |-> entry, before |-> emailDomains,
     dataFlag |-> isEmailDomainDataError, availFlag |-> isEmailDomainAvailableError,
     validated |-> validated, remote |-> remote, outcome |-> outcome, live |-> live]

NoEvent ==
    [op |-> "none", entry |-> "", before |-> <<>>, dataFlag |-> FALSE, availFlag |-> FALSE,
     validated |-> "", remote |-> FALSE, outcome |-> "", live |-> FALSE]

\* disabled of the submit button, computed when the button is rendered.
SubmitDisabled(isSubmitting, list, name) ==
    isSubmitting \/ list = <<>> \/ name = ""

\* The button after an event: rendered again, with the email domains the
\* event leaves, when the event changed a state of the component, and as it
\* was when every setter was called with the value the state had.
RenderSubmitButton(rendersAgain, list) ==
    submitDisabled' = IF rendersAgain
                      THEN SubmitDisabled(submitting, list, organizationName)
                      ELSE submitDisabled

\* onChange(_, value): setEmailDomains(value); if (value.length > 0)
\* validateEmailDomain(value), up to its await.  origin names the user's
\* action, entry the element it added or removed.  An insertion empties
\* the input of the field first, which calls onInputChange and so clears
\* both flags in the same event.
EmailOnChange(value, origin, entry) ==
    LET last == value[Len(value)]
        clears == (origin = "insert")
    IN
    /\ UNCHANGED <<emailPassed, emailRejected>>
    /\ isEmailDomainAvailableError' = (~clears /\ isEmailDomainAvailableError)
    /\ IF Len(value) = 0
       THEN /\ emailDomains' = value
            /\ emailPending' = Stale(emailPending)
            /\ emailLast' = EmailEvent(origin, entry, "", FALSE, "", FALSE)
            /\ isEmailDomainDataError' = (~clears /\ isEmailDomainDataError)
       ELSE IF ~FormValidationDomain(last)
       THEN /\ isEmailDomainDataError' = TRUE
            /\ emailDomains' = Pop(value)
            /\ emailPending' = Stale(emailPending)
            /\ emailLast' = EmailEvent(origin, entry, last, FALSE, "", FALSE)
       ELSE /\ Len(emailPending) < MaxPending
            /\ emailDomains' = value
            /\ emailPending' = Append(Stale(emailPending),
                                      [arg |-> last, live |-> TRUE, origin |-> origin])
            /\ emailLast' = EmailEvent(origin, entry, last, TRUE, "", FALSE)
            /\ isEmailDomainDataError' = (~clears /\ isEmailDomainDataError)
    /\ RenderSubmitButton(TRUE, emailDomains')

\* The user adds a free-form entry (the Autocomplete ignores an entry that
\* is already a value).
InsertEmailDomain(e) ==
    /\ navigatedTo = ""
    /\ Len(emailDomains) < MaxDomains
    /\ \A i \in 1..Len(emailDomains) : emailDomains[i] # e
    /\ EmailOnChange(Append(emailDomains, e), "insert", e)
    /\ UNCHANGED NotEmailVars

\* The user deletes the chip at position i.
RemoveEmailDomain(i) ==
    /\ navigatedTo = ""
    /\ i \in 1..Len(emailDomains)
    /\ EmailOnChange(RemoveAt(emailDomains, i), "remove", emailDomains[i])
    /\ UNCHANGED NotEmailVars

\* onInputChange: the user types in the field's input.
EmailOnInputChange ==
    /\ navigatedTo = ""
    /\ isEmailDomainDataError' = FALSE
    /\ isEmailDomainAvailableError' = FALSE
    /\ emailLast' = NoEvent
    /\ RenderSubmitButton(isEmailDomainDataError \/ isEmailDomainAvailableError, emailDomains)
    /\ UNCHANGED <<emailDomains, emailPending, emailPassed, emailRejected, NotEmailVars>>

\* Mutant: an unavailable entry is popped without the flag.
EmailCheckSettle_PopsSilently(k, outcome) ==
    LET p == emailPending[k]
        isEmailDomainAvailable == CheckEmailDomainAvailability(outcome)
    IN
    /\ k \in 1..Len(emailPending)
    /\ emailPending' = RemoveAt(emailPending, k)
    /\ emailPassed' = IF outcome = "true" THEN emailPassed \cup {p.arg} ELSE emailPassed
    /\ emailRejected' = IF outcome = "reject" THEN emailRejected \cup {p.arg} ELSE emailRejected
    /\ emailLast' = EmailEvent("settle-" \o p.origin, p.arg, p.arg, FALSE, outcome, p.live)
    /\ IF ~isEmailDomainAvailable
       THEN /\ emailDomains' = IF p.live THEN Pop(emailDomains) ELSE emailDomains
            /\ RenderSubmitButton(TRUE, emailDomains')
            /\ UNCHANGED isEmailDomainAvailableError
       ELSE UNCHANGED <<isEmailDomainAvailableError, emailDomains, submitDisabled>>
    /\ UNCHANGED <<isEmailDomainDataError, NotEmailVars>>

\* checkEmailDomainAvailable answers for the k-th suspended validation and
\* validateEmailDomain runs to its end.
EmailCheckSettle(k, outcome) ==
    LET p == emailPending[k]
        isEmailDomainAvailable == CheckEmailDomainAvailability(outcome)
    IN
    /\ k \in 1..Len(emailPending)
    /\ emailPending' = RemoveAt(emailPending, k)
    /\ emailPassed' = IF outcome = "true" THEN emailPassed \cup {p.arg} ELSE emailPassed
    /\ emailRejected' = IF outcome = "reject" THEN emailRejected \cup {p.arg} ELSE emailRejected
    /\ emailLast' = EmailEvent("settle-" \o p.origin, p.arg, p.arg, FALSE, outcome, p.live)
    /\ IF ~isEmailDomainAvailable
       THEN /\ isEmailDomainAvailableError' = TRUE
            /\ emailDomains' = IF p.live THEN Pop(emailDomains) ELSE emailDomains
            /\ RenderSubmitButton(~isEmailDomainAvailableError, emailDomains')
       ELSE UNCHANGED <<isEmailDomainAvailableError, emailDomains, submitDisabled>>
    /\ UNCHANGED <<isEmailDomainDataError, NotEmailVars>>

\* The insertion attempts for the entry e that wait for their answer.
PendingInsertions(e) ==
    {k \in 1..Len(emailPending) : emailPending[k].arg = e /\ emailPending[k].origin = "insert"}

\* The user adds the entry e when no earlier insertion of e waits for its
\* answer.
InsertWhenSettled(e) ==
    /\ PendingInsertions(e) = {}
    /\ InsertEmailDomain(e)

EmailInit ==
    /\ emailDomains = <<>>
    /\ emailPending = <<>>
    /\ isEmailDomainDataError = FALSE
    /\ isEmailDomainAvailableError = FALSE
    /\ emailPassed = {}
    /\ emailRejected = {}
    /\ emailLast = NoEvent

(***************************************************************************)
(* Paginated organization loader                                           *)
(***************************************************************************)
Null == "null"
Undefined == "undefined"

OrgPageLimit == 15

QueryPrefix == "name co "

Organizations == {[id |-> "o1", name |-> "acme"], [id |-> "o2", name |-> "beta"]}

\* Texts typed into the organization name field.
FilterTexts == {"", "a", "b"}

\* href of a link of a response: the text before "after=", and then, when
\* the parameter is there, "after=" and the text that follows it.
Hrefs == {<<"organizations?limit=15">>,
          <<"organizations?limit=15&", "after=", "c1">>}

\* href.split("after=")[1]
SplitAfter(href) ==
    IF \E i \in 1..Len(href) : href[i] = "after="
    THEN LET i == CHOOSE k \in 1..Len(href) : href[k] = "after="
                                                /\ \A j \in 1..(k - 1) : href[j] # "after="
         IN  IF i < Len(href) THEN href[i + 1] ELSE ""
    ELSE Undefined

\* The links of a response: none, a "previous" link, and a "next" link,
\* whose href carries the cursor of the next page, before or after a
\* "previous" link.
PreviousLink == [rel |-> "previous", href |-> <<"organizations?limit=15">>]

NextLink(cursor) ==
    [rel |-> "next", href |-> <<"organizations?limit=15&", "after=", cursor>>]

LinkLists ==
    {<<>>, <<PreviousLink>>, <<NextLink("c1"), PreviousLink>>,
     <<PreviousLink, NextLink("c1")>>}

OrgPages == UNION {[1..n -> Organizations] : n \in 0..MaxPage}

Cursors == {SplitAfter(h) : h \in Hrefs} \ {"", Undefined}

RequestKeys ==
    [filter : {Undefined, ""} \cup {QueryPrefix \o t : t \in FilterTexts \ {""}},
     after : {Null} \cup Cursors]

\* The key of the request useGetOrganizations makes for params.
RequestOf(p) == [filter |-> p.filter, after |-> p.after]

\* useGetOrganizations(params.shouldFetch, params.filter, ...): a request
\* goes out when the parameters ask for one that is not in flight yet.
IssueRequest(p, requests) ==
    IF p.shouldFetch THEN requests \cup {RequestOf(p)} ELSE requests

\* The hook hands the answer to any request in flight to the component
\* when it arrives: requests are not cancelled when the parameters change
\* and answers are not matched against the parameters of the moment.
ResponseArrives(r) == r \in orgRequests

\* The filter text a request was made for.
FilterTextOf(filter) ==
    IF filter \in {Undefined, ""} THEN ""
    ELSE CHOOSE t \in FilterTexts : QueryPrefix \o t = filter

\* updateParams(cursor, inputValue), with the request the new parameters
\* cause.
UpdateParams(cursor, newInputValue) ==
    /\ afterCursor' = cursor
    /\ inputValue' = newInputValue
    /\ params' = [params EXCEPT
                    !.after = IF cursor \in {"", Null, Undefined} THEN Null ELSE cursor,
                    !.filter = IF newInputValue # "" THEN QueryPrefix \o newInputValue ELSE "",
                    !.shouldFetch = TRUE]
    /\ orgRequests' = IssueRequest(params', orgRequests)
    /\ orgAlert' = <<>>

\* History tag of a loader event: what happened, whether organizations and
\* a cursor had been accumulated before it and, for a response, the cursor
\* of its request, its page and its links or its error.
OrgEvent(op) ==
    [op |-> op, hadOrgs |-> organizations # <<>>,
     hadCursor |-> afterCursor \notin {"", Null, Undefined},
     after |-> Null, page |-> <<>>, links |-> <<>>, error |-> Undefined]

\* Mutant: the input change keeps the cursor and the accumulated list.
HandleInputChange_KeepsPage(data) ==
    /\ Cardinality(orgRequests) < MaxInFlight
    /\ UNCHANGED <<organizations, hasMoreOrganizations, orgStale>>
    /\ UpdateParams(afterCursor, IF data = Null THEN "" ELSE data)
    /\ orgLast' = OrgEvent("inputChange")
    /\ UNCHANGED NotOrgVars

\* The callback handed to debounce in handleInputChange, run with the text
\* data: what it does to the loader.
InputChangeCallback(data) ==
    /\ Cardinality(orgRequests) < MaxInFlight
    /\ organizations' = <<>>
    /\ orgStale' = FALSE
    /\ UpdateParams("", IF data = Null THEN "" ELSE data)
    /\ orgLast' = OrgEvent("inputChange")
    /\ UNCHANGED hasMoreOrganizations

\* The debounced callback of handleInputChange runs with the text data.
HandleInputChange(data) ==
    /\ InputChangeCallback(data)
    /\ UNCHANGED NotOrgVars

\* Mutant: clearing the selection keeps the accumulated organizations.
OnChangeCallback_KeepsList(value) ==
    /\ orgLast' = OrgEvent("onChange")
    /\ IF value \in {Null, ""}
       THEN /\ Cardinality(orgRequests) < MaxInFlight
            /\ UNCHANGED <<organizations, orgStale>>
            /\ UpdateParams("", "")
       ELSE /\ orgAlert' = <<>>
            /\ UNCHANGED <<organizations, afterCursor, inputValue, params, orgRequests,
                           orgStale>>
    /\ UNCHANGED hasMoreOrganizations

\* handleOnChange(_, value): what it does to the loader; value is the
\* selected organization name, Null when the selection is cleared.
OnChangeCallback(value) ==
    /\ orgLast' = OrgEvent("onChange")
    /\ IF value \in {Null, ""}
       THEN /\ Cardinality(orgRequests) < MaxInFlight
            /\ organizations' = <<>>
            /\ orgStale' = FALSE
            /\ UpdateParams("", "")
       ELSE /\ orgAlert' = <<>>
            /\ UNCHANGED <<organizations, afterCursor, inputValue, params, orgRequests,
                           orgStale>>
    /\ UNCHANGED hasMoreOrganizations

\* handleOnChange(_, value): the selection changes.
HandleOnChange(value) ==
    /\ OnChangeCallback(value)
    /\ UNCHANGED NotOrgVars

\* Mutant: loadMoreOrganizations without its hasMoreOrganizations guard.
LoadMoreOrganizations_Unguarded ==
    /\ orgLast' = OrgEvent("loadMore")
    /\ Cardinality(orgRequests) < MaxInFlight
    /\ UpdateParams(afterCursor, inputValue)
    /\ UNCHANGED <<organizations, hasMoreOrganizations, orgStale, NotOrgVars>>

\* Mutant: loadMoreOrganizations asks for the first page again.
LoadMoreOrganizations_FirstPage ==
    /\ orgLast' = OrgEvent("loadMore")
    /\ IF ~hasMoreOrganizations
       THEN /\ orgAlert' = <<>>
            /\ UNCHANGED <<afterCursor, inputValue, params, orgRequests>>
       ELSE /\ Cardinality(orgRequests) < MaxInFlight
            /\ UpdateParams("", inputValue)
    /\ UNCHANGED <<organizations, hasMoreOrganizations, orgStale, NotOrgVars>>

\* loadMoreOrganizations: the option list is scrolled to its end.
LoadMoreOrganizations ==
    /\ orgLast' = OrgEvent("loadMore")
    /\ IF ~hasMoreOrganizations
       THEN /\ orgAlert' = <<>>
            /\ UNCHANGED <<afterCursor, inputValue, params, orgRequests>>
       ELSE /\ Cardinality(orgRequests) < MaxInFlight
            /\ UpdateParams(afterCursor, inputValue)
    /\ UNCHANGED <<organizations, hasMoreOrganizations, orgStale, NotOrgVars>>

\* Mutant: a link that is not the "next" link resets what the loop found.
RECURSIVE ScanLinks_LastLinkDecides(_, _)
ScanLinks_LastLinkDecides(links, acc) ==
    IF links = <<>> THEN acc
    ELSE LET link == Head(links)
             nextCursor == SplitAfter(link.href)
         IN  IF link.rel = "next"
             THEN ScanLinks_LastLinkDecides(Tail(links),
                            <<TRUE, nextCursor, nextCursor \notin {"", Undefined}>>)
             ELSE ScanLinks_LastLinkDecides(Tail(links), <<FALSE, acc[2], acc[3]>>)

\* The links.forEach of the response effect: the cursor and hasMore after
\* the whole loop, <<found, cursor, hasMore>>.
RECURSIVE ScanLinks(_, _)
ScanLinks(links, acc) ==
    IF links = <<>> THEN acc
    ELSE LET link == Head(links)
             nextCursor == SplitAfter(link.href)
         IN  IF link.rel = "next"
             THEN ScanLinks(Tail(links),
                            <<TRUE, nextCursor, nextCursor \notin {"", Undefined}>>)
             ELSE ScanLinks(Tail(links), acc)

\* Mutant: a page leaves out the organizations that are accumulated already.
AppendPage_SkipsKnown(prevOptions, updatedOrganizationList) ==
    prevOptions \o SelectSeq(updatedOrganizationList,
                             LAMBDA o : \A i \in 1..Len(prevOptions) : prevOptions[i].id # o.id)

\* setOrganizations((prevOptions) => [ ...prevOptions, ...updatedOrganizationList ])
AppendPage(prevOptions, updatedOrganizationList) ==
    prevOptions \o updatedOrganizationList

\* A page request is answered and the hook hands the response to the
\* component, whichever request it answers: the effect on
\* organizationListResponse runs.
OrgFetchSuccess(r, page, links) ==
    /\ ResponseArrives(r)
    /\ Len(organizations) + Len(page) <= MaxOrgs
    /\ orgRequests' = orgRequests \ {r}
    /\ LET scan == ScanLinks(links, <<FALSE, afterCursor, hasMoreOrganizations>>)
       IN  /\ params' = [params EXCEPT !.shouldFetch = FALSE]
           /\ organizations' = AppendPage(organizations, page)
           /\ afterCursor' = IF scan[1] THEN scan[2] ELSE ""
           /\ hasMoreOrganizations' = IF scan[1] THEN scan[3] ELSE FALSE
    /\ orgStale' = (orgStale \/ (page # <<>> /\ FilterTextOf(r.filter) # inputValue))
    /\ orgLast' = [OrgEvent("page") EXCEPT !.after = r.after, !.page = page,
                                           !.links = links]
    /\ orgAlert' = <<>>
    /\ UNCHANGED <<inputValue, NotOrgVars>>

\* The error of a failed page request: the description and the message of
\* the body of the response, Undefined where there is none.
FetchErrors ==
    [description : {Undefined, "server description"},
     message : {Undefined, "server message"}]

\* Mutant: the effect goes on to the generic alert after the alert of the
\* server error.
FetchErrorAlerts_NoReturn(error) ==
    (IF error.description # Undefined
     THEN <<[level |-> "error", description |-> error.description,
             message |-> IF error.message # Undefined THEN error.message
                         ELSE "getOrganizationList.error.message"]>>
     ELSE <<>>)
    \o <<[level |-> "error", description |-> "getOrganizationList.genericError.description",
          message |-> "getOrganizationList.genericError.message"]>>

\* The alerts the effect on organizationsFetchRequestError dispatches.
FetchErrorAlerts(error) ==
    IF error.description # Undefined
    THEN <<[level |-> "error", description |-> error.description,
            message |-> IF error.message # Undefined THEN error.message
                        ELSE "getOrganizationList.error.message"]>>
    ELSE <<[level |-> "error", description |-> "getOrganizationList.genericError.description",
            message |-> "getOrganizationList.genericError.message"]>>

\* A page request fails: the effect on organizationsFetchRequestError
\* raises an alert and changes no state of the loader.
OrgFetchFail(r, error) ==
    /\ ResponseArrives(r)
    /\ orgRequests' = orgRequests \ {r}
    /\ orgLast' = [OrgEvent("error") EXCEPT !.after = r.after, !.error = error]
    /\ orgAlert' = FetchErrorAlerts(error)
    /\ UNCHANGED <<organizations, hasMoreOrganizations, inputValue, afterCursor, params,
                   orgStale, NotOrgVars>>

(***************************************************************************)
(* Debounce of handleInputChange                                           *)
(*   useCallback(debounce(callback, 100), [ updateParams ])                *)
(* updateParams is a new function in every render, so every render makes   *)
(* handleInputChange a new debounced function with a timer of its own.     *)
(* All timers run for the same 100 ms, so they fire in the order in which  *)
(* they were started: a timer is pending at an input event exactly when    *)
(* the event before it was less than 100 ms ago.                           *)
(***************************************************************************)
Idle == "idle"

InputData == FilterTexts \cup {Null}

TimerPending == debounced # Idle \/ debounceOrphans # <<>>

\* onInputChange of the field calls handleInputChange(event, data): the
\* debounced function of the last render starts its timer again, with data.
InputEvent(data) ==
    /\ IF TimerPending
       THEN /\ burst.events < MaxBurst
            /\ burst' = [burst EXCEPT !.events = @ + 1, !.last = data]
       ELSE burst' = [events |-> 1, fired |-> 0, last |-> data]
    /\ debounced' = data
    /\ UNCHANGED <<debounceOrphans, orgVars, NotDebounceVars>>

\* The component renders again while a call of handleInputChange is
\* pending: the next input event goes to a new debounced function, and the
\* timer of the old one keeps running.
Rerender ==
    /\ debounced # Idle
    /\ Len(debounceOrphans) < MaxOrphans
    /\ debounceOrphans' = Append(debounceOrphans, debounced)
    /\ debounced' = Idle
    /\ UNCHANGED <<burst, orgVars, NotDebounceVars>>

\* The timer that was started first fires and the callback runs with the
\* data of the last call of its debounced function.
DebounceFires ==
    /\ TimerPending
    /\ LET data == IF debounceOrphans # <<>> THEN Head(debounceOrphans) ELSE debounced
       IN  InputChangeCallback(data)
    /\ IF debounceOrphans # <<>>
       THEN debounceOrphans' = Tail(debounceOrphans) /\ UNCHANGED debounced
       ELSE debounced' = Idle /\ UNCHANGED debounceOrphans
    /\ burst' = [burst EXCEPT !.fired = @ + 1]
    /\ UNCHANGED NotDebounceVars

DebounceInit ==
    /\ debounced = Idle
    /\ debounceOrphans = <<>>
    /\ burst = [events |-> 0, fired |-> 0, last |-> Null]

(***************************************************************************)
(* Organizations offered for selection                                     *)
(***************************************************************************)
\* The data of useGetOrganizationDiscovery: none yet (defined is false), a
\* response without organizations (listed is false), or the organizations
\* that are discoverable already.
NoDiscoveryData == [defined |-> FALSE, listed |-> FALSE, organizations |-> {}]

DiscoveryData ==
    {NoDiscoveryData, [defined |-> TRUE, listed |-> FALSE, organizations |-> {}]}
    \cup {[defined |-> TRUE, listed |-> TRUE, organizations |-> list] :
            list \in SUBSET {[organizationId |-> o.id, organizationName |-> o.name] :
                                o \in Organizations}}

\* Mutant: the filter keeps the organizations that are discoverable already.
FilteredDiscoverableOrganizations_KeepsDiscoverable(orgs, discoverable) ==
    SelectSeq(orgs,
              LAMBDA organization :
                  /\ discoverable.defined
                  /\ discoverable.listed
                  /\ \E d \in discoverable.organizations :
                         d.organizationId = organization.id)

\* filteredDiscoverableOrganizations: organizations.filter(organization =>
\* !discoverableOrganizations?.organizations?.some(d => d.organizationId
\* === organization.id))
FilteredDiscoverableOrganizations(orgs, discoverable) ==
    SelectSeq(orgs,
              LAMBDA organization :
                  ~(/\ discoverable.defined
                    /\ discoverable.listed
                    /\ \E d \in discoverable.organizations :
                           d.organizationId = organization.id))

\* The options of the organization name field.
OfferedNames ==
    LET offered == FilteredDiscoverableOrganizations(organizations, discoverableOrganizations)
    IN  {offered[i].name : i \in 1..Len(offered)}

\* useGetOrganizationDiscovery hands over data.
DiscoveryLoaded(data) ==
    /\ discoverableOrganizations # data
    /\ discoverableOrganizations' = data
    /\ UNCHANGED NotDiscoveryVars

DiscoveryInit == discoverableOrganizations = NoDiscoveryData

(***************************************************************************)
(* Submission                                                              *)
(*   onSubmit={ (values) => { handleSubmit(values); } }                    *)
(* The onSubmit handed to the form returns nothing, and handleSubmit does  *)
(* not return the promise of addOrganizationEmailDomain either: for the    *)
(* form the submission is over when onSubmit returns, and submitting is    *)
(* false again before the button is rendered.                              *)
(***************************************************************************)
\* What onSubmit returns to the form: Undefined, or "promise".
OnSubmitResult == Undefined

\* The user picks one of the offered organization names, or clears the
\* selection (value is Null): the form value changes, handleOnChange runs
\* and the button is rendered with the new form value.
SelectOrganization(value) ==
    /\ navigatedTo = ""
    /\ value = Null \/ value \in OfferedNames
    /\ organizationName' = IF value = Null THEN "" ELSE value
    /\ OnChangeCallback(value)
    /\ submitDisabled' = SubmitDisabled(submitting, emailDomains, organizationName')
    /\ UNCHANGED <<submitting, submitRequests, submitAlert, navigatedTo, NotSubmitVars>>

\* The user presses the submit button as it is rendered: handleSubmit
\* looks the organization up by its name and calls
\* addOrganizationEmailDomain with the email domains of the state.
Submit ==
    /\ navigatedTo = ""
    /\ ~submitDisabled
    /\ Len(submitRequests) < MaxSubmits
    /\ LET found == {i \in 1..Len(organizations) : organizations[i].name = organizationName}
           first == CHOOSE i \in found : \A j \in found : i <= j
       IN  submitRequests' =
               IF found = {} THEN submitRequests
               ELSE Append(submitRequests, [organizationId |-> organizations[first].id,
                                            emailDomains |-> emailDomains])
    /\ submitting' = (OnSubmitResult = "promise")
    /\ submitDisabled' = SubmitDisabled(submitting', emailDomains, organizationName)
    /\ submitAlert' = "none"
    /\ UNCHANGED <<organizationName, navigatedTo, orgVars, NotSubmitVars>>

AssociationOutcomes == {"resolve", "reject"}

\* A catch() that leaves the form for the page of the organization, as
\* then() does.
AssociationSettles_NavigatesOnReject(k, outcome) ==
    /\ k \in 1..Len(submitRequests)
    /\ submitRequests' = RemoveAt(submitRequests, k)
    /\ submitAlert' = (IF outcome = "resolve" THEN "success" ELSE "error")
    /\ navigatedTo' = submitRequests[k].organizationId
    /\ UNCHANGED <<organizationName, submitting, submitDisabled, orgVars, NotSubmitVars>>

\* addOrganizationEmailDomain settles: then() raises the success alert and
\* goes to the page of the organization, catch() raises the error alert.
AssociationSettles(k, outcome) ==
    /\ k \in 1..Len(submitRequests)
    /\ submitRequests' = RemoveAt(submitRequests, k)
    /\ IF outcome = "resolve"
       THEN /\ submitAlert' = "success"
            /\ navigatedTo' = submitRequests[k].organizationId
       ELSE /\ submitAlert' = "error"
            /\ UNCHANGED navigatedTo
    /\ UNCHANGED <<organizationName, submitting, submitDisabled, orgVars, NotSubmitVars>>

SubmitInit ==
    /\ organizationName = ""
    /\ submitting = FALSE
    /\ submitDisabled = TRUE
    /\ submitRequests = <<>>
    /\ submitAlert = "none"
    /\ navigatedTo = ""

InitialParams == [after |-> Null, filter |-> Undefined, limit |-> OrgPageLimit,
                  shouldFetch |-> TRUE]

OrgInit ==
    /\ organizations = <<>>
    /\ hasMoreOrganizations = TRUE
    /\ inputValue = ""
    /\ afterCursor = Null
    /\ params = InitialParams
    /\ orgRequests = {RequestOf(InitialParams)}
    /\ orgLast = [op |-> "none", hadOrgs |-> FALSE, hadCursor |-> FALSE,
                  after |-> Null, page |-> <<>>, links |-> <<>>, error |-> Undefined]
    /\ orgStale = FALSE
    /\ orgAlert = <<>>

\* The loader after the only page of organizations has arrived.
OrgLoaded ==
    /\ organizations = <<[id |-> "o1", name |-> "acme"]>>
    /\ hasMoreOrganizations = FALSE
    /\ inputValue = ""
    /\ afterCursor = ""
    /\ params = [InitialParams EXCEPT !.shouldFetch = FALSE]
    /\ orgRequests = {}
    /\ orgLast = [op |-> "page", hadOrgs |-> FALSE, hadCursor |-> FALSE,
                  after |-> Null, page |-> <<[id |-> "o1", name |-> "acme"]>>,
                  links |-> <<>>, error |-> Undefined]
    /\ orgStale = FALSE
    /\ orgAlert = <<>>

(***************************************************************************)
(* AddTenantForm: the form                                                 *)
(*                                                                         *)
(* The form library (final-form) runs handleValidate and every field       *)
(* validator when a value changes.  The field validators are async: their  *)
(* promises make one validation run, kept under a key until all of them    *)
(* have resolved, and only the last run started writes the field errors.   *)
(* A promise that resolves without waiting for a remote call has resolved  *)
(* before the next event is handled.  A run one of whose promises rejects  *)
(* is never cleared.  A submit with an error in formState.errors does      *)
(* nothing; with validation runs under way it waits for them and submits   *)
(* again; otherwise it calls onSubmit with the values.                     *)
(***************************************************************************)
FormFields == {"organizationName", "firstname", "lastname", "username", "email", "password"}

AllFields == FormFields \cup {"domain"}

\* The values the user enters in the fields.
TextValues == {<<>>, <<"a">>}
EmailValues == {<<>>, <<"a">>, <<"a", "@", "a">>}
UsernameValues == {<<>>, <<"a">>, <<"a", "@", "a">>, <<"!", "@", "a">>}
OrganizationNameValues == {<<>>, <<"A", " ", "C">>, <<"A", "!">>}
FormDomainValues == {<<>>, <<"a">>, <<".">>}

FieldValues(name) ==
    CASE name = "organizationName" -> OrganizationNameValues
      [] name = "domain"           -> FormDomainValues
      [] name = "username"         -> UsernameValues
      [] name = "email"            -> EmailValues
      [] OTHER                     -> TextValues

\* formState.values.
Values(domain, others) ==
    [f \in AllFields |-> IF f = "domain" THEN domain ELSE others[f]]

\* FormValidation.email: one "@", with something before and after it.
FormValidationEmail(value) ==
    /\ Cardinality({i \in 1..Len(value) : value[i] = "@"}) = 1
    /\ value[1] # "@"
    /\ value[Len(value)] # "@"

\* How getUsertoreUsernameValidationPattern() can end: it resolves with
\* the pattern of the userstore, or rejects.
UsernamePatternOutcomes == {"^[a@]+$", "reject"}

\* SharedUserStoreUtils.validateInputAgainstRegEx.
ValidateInputAgainstRegEx(input, regex) == RegExpTest(regex, input)

UsernameRegExViolation == "username.validations.regExViolation"

\* Mutant: the error is returned only when both tests fail.
ValidateUsernameAgainstUserstoreRegExp_BothFail(value, userRegex) ==
    IF ~ValidateInputAgainstRegEx(value, userRegex) /\ ~FormValidationEmail(value)
    THEN UsernameRegExViolation
    ELSE Undefined

\* validateUsernameAgainstUserstoreRegExp for a non-empty value, after the
\* await of the pattern.
ValidateUsernameAgainstUserstoreRegExp(value, userRegex) ==
    IF ~ValidateInputAgainstRegEx(value, userRegex) \/ ~FormValidationEmail(value)
    THEN UsernameRegExViolation
    ELSE Undefined

UsernameConfigs == [enableValidator : {"false", "true", Undefined}]

\* renderUsernameField: validate={ composeValidators(...) } is on the field
\* of the first branch only.
UsernameValidatorAttached(config) == config.enableValidator = "false"

\* TenantConstants.ORGANIZATION_NAME_REGEX.
OrganizationNameRegex == "[^a-zA-Z0-9 ]"

OrganizationNameInvalidCharPattern == "organizationName.validations.invalidCharPattern"

\* Mutant: the pattern is taken as the pattern of the names allowed.
ValidateOrganizationName_AllowList(orgName) ==
    IF orgName = <<>> THEN Undefined
    ELSE IF ~RegExpTest(OrganizationNameRegex, orgName)
         THEN OrganizationNameInvalidCharPattern
         ELSE Undefined

\* validateOrganizationName: memoized, and a function of its argument.
ValidateOrganizationName(orgName) ==
    IF orgName = <<>> THEN Undefined
    ELSE IF RegExpTest(OrganizationNameRegex, orgName)
         THEN OrganizationNameInvalidCharPattern
         ELSE Undefined

RequiredError(name) == name \o ".validations.required"

EmailInvalid == "email.validations.invalid"

\* Mutant: the email is tested for validity only.
HandleValidate_EmailNotRequired(values) ==
    [domain    |-> IF values.domain = <<>> THEN RequiredError("domain") ELSE Undefined,
     email     |-> IF values.email # <<>> /\ ~FormValidationEmail(values.email) THEN EmailInvalid
                   ELSE Undefined,
     firstname |-> IF values.firstname = <<>> THEN RequiredError("firstname") ELSE Undefined,
     lastname  |-> IF values.lastname = <<>> THEN RequiredError("lastname") ELSE Undefined,
     password  |-> IF values.password = <<>> THEN RequiredError("password") ELSE Undefined,
     username  |-> IF values.username = <<>> THEN RequiredError("username") ELSE Undefined]

\* Mutant: an empty email address is an error of the username too.
HandleValidate_EmailErrorOnUsername(values) ==
    [domain    |-> IF values.domain = <<>> THEN RequiredError("domain") ELSE Undefined,
     email     |-> IF values.email = <<>> THEN RequiredError("email")
                   ELSE IF ~FormValidationEmail(values.email) THEN EmailInvalid
                   ELSE Undefined,
     firstname |-> IF values.firstname = <<>> THEN RequiredError("firstname") ELSE Undefined,
     lastname  |-> IF values.lastname = <<>> THEN RequiredError("lastname") ELSE Undefined,
     password  |-> IF values.password = <<>> THEN RequiredError("password") ELSE Undefined,
     username  |-> IF values.username = <<>> \/ values.email = <<>>
                   THEN RequiredError("username") ELSE Undefined]

\* handleValidate.
HandleValidate(values) ==
    [domain    |-> IF values.domain = <<>> THEN RequiredError("domain") ELSE Undefined,
     email     |-> IF values.email = <<>> THEN RequiredError("email")
                   ELSE IF ~FormValidationEmail(values.email) THEN EmailInvalid
                   ELSE Undefined,
     firstname |-> IF values.firstname = <<>> THEN RequiredError("firstname") ELSE Undefined,
     lastname  |-> IF values.lastname = <<>> THEN RequiredError("lastname") ELSE Undefined,
     password  |-> IF values.password = <<>> THEN RequiredError("password") ELSE Undefined,
     username  |-> IF values.username = <<>> THEN RequiredError("username") ELSE Undefined]

\* TenantStatus.INLINE_PASSWORD.
InlinePassword == "inline-password"

\* Mutant: the payload takes its name from the domain and its owner loses
\* the email.
HandleSubmit_NameFromDomain(values) ==
    [domain |-> values.domain,
     name   |-> values.domain,
     owners |-> <<[firstname |-> values.firstname, lastname |-> values.lastname,
                   username |-> values.username, email |-> <<>>,
                   password |-> values.password,
                   provisioningMethod |-> InlinePassword]>>]

\* handleSubmit: the payload handed to props.onSubmit.
HandleSubmit(values) ==
    [domain |-> values.domain,
     name   |-> values.organizationName,
     owners |-> <<[firstname |-> values.firstname, lastname |-> values.lastname,
                   username |-> values.username, email |-> values.email,
                   password |-> values.password,
                   provisioningMethod |-> InlinePassword]>>]

\* The results of the field validators of a run; "pending" is a promise
\* that waits for a remote call, "rejected" one that rejected.
NoFieldErrors == [organizationName |-> Undefined, domain |-> Undefined, username |-> Undefined]

\* final-form processErrors: the error of a field is the one of its
\* validator and else the one of handleValidate.
ProcessErrors(record, field) ==
    [f \in AllFields |->
        IF f \in DOMAIN field /\ field[f] \notin {Undefined, "pending", "rejected"} THEN field[f]
        ELSE IF f \in DOMAIN record THEN record[f]
        ELSE Undefined]

HasAnyError(errors) == \E f \in AllFields : errors[f] # Undefined

\* Mutant: a submit does not wait for the validation runs under way.
ApiSubmit_NoAsyncWait(errors, runs, rejected) ==
    IF HasAnyError(errors) THEN "blocked" ELSE "accepted"

\* final-form submit: what a submit does in a state of the form.
ApiSubmit(errors, runs, rejected) ==
    IF HasAnyError(errors) THEN "blocked"
    ELSE IF rejected THEN "dropped"
    ELSE IF DOMAIN runs # {} THEN "deferred"
    ELSE "accepted"

\* The policy values are strings of digits, or undefined.
PolicyNumbers == {Undefined, "0", "1", "2"}

\* Number(x); NaN, which is not greater than 0, is -1 here.
NaN == -1

Number(x) ==
    CASE x = "0" -> 0
      [] x = "1" -> 1
      [] x = "2" -> 2
      [] OTHER   -> NaN

PasswordConfigs ==
    {c \in [minLength : {"2"}, minLowerCaseCharacters : PolicyNumbers,
            minUpperCaseCharacters : {"0", "1"}, minNumbers : {Undefined, "1"},
            minSpecialCharacters : {"0", "2"}, minUniqueCharacters : {"1"}] : TRUE}

\* Mutant: a class with a minimum of 0 is requested too.
GeneratorArguments_ZeroRequests(config) ==
    [length       |-> Number(config.minLength),
     lowerCase    |-> Number(config.minLowerCaseCharacters) >= 0,
     upperCase    |-> Number(config.minUpperCaseCharacters) >= 0,
     numbers      |-> Number(config.minNumbers) >= 0,
     special      |-> Number(config.minSpecialCharacters) >= 0,
     minLowerCase |-> Number(config.minLowerCaseCharacters),
     minUpperCase |-> Number(config.minUpperCaseCharacters),
     minNumbers   |-> Number(config.minNumbers),
     minSpecial   |-> Number(config.minSpecialCharacters),
     minUnique    |-> Number(config.minUniqueCharacters)]

\* The arguments setRandomPassword hands to generatePassword.
GeneratorArguments(config) ==
    [length       |-> Number(config.minLength),
     lowerCase    |-> Number(config.minLowerCaseCharacters) > 0,
     upperCase    |-> Number(config.minUpperCaseCharacters) > 0,
     numbers      |-> Number(config.minNumbers) > 0,
     special      |-> Number(config.minSpecialCharacters) > 0,
     minLowerCase |-> Number(config.minLowerCaseCharacters),
     minUpperCase |-> Number(config.minUpperCaseCharacters),
     minNumbers   |-> Number(config.minNumbers),
     minSpecial   |-> Number(config.minSpecialCharacters),
     minUnique    |-> Number(config.minUniqueCharacters)]

\* generatePassword: a character of every class asked for, filled up to
\* the length with lower-case letters.
GeneratePassword(args) ==
    LET classes == (IF args.lowerCase THEN <<"a">> ELSE <<>>)
                     \o (IF args.upperCase THEN <<"A">> ELSE <<>>)
                     \o (IF args.numbers THEN <<"1">> ELSE <<>>)
                     \o (IF args.special THEN <<"!">> ELSE <<>>)
    IN  classes \o [i \in 1..(args.length - Len(classes)) |-> "a"]

FormEvent(op, attempt, called, value, outcome, result) ==
    [op |-> op, attempt |-> attempt, called |-> called, value |-> value,
     outcome |-> outcome, result |-> result]

NoFormEvent(op) == FormEvent(op, "none", 0, <<>>, "none", Undefined)

FreeKeys == (1..MaxRuns) \ DOMAIN validationRuns

Restrict(m, keys) == [k \in keys |-> m[k]]

AddCalls(n, k) == IF n + k < 2 THEN n + k ELSE 2

\* final-form runValidation for the values (domain, others): handleValidate
\* and the validators of the organizationName, domain and username fields.
RunValidation(domain, others) ==
    LET values == Values(domain, others)
        userPending == /\ UsernameValidatorAttached(userNameValidationConfig)
                       /\ others.username # <<>>
        key == CHOOSE k \in FreeKeys : \A j \in FreeKeys : k <= j
    IN  /\ ValidateDomainCall(domain)
        /\ recordLevelErrors' = HandleValidate(values)
        /\ latestValidation' =
               [values |-> values,
                errors |-> [organizationName |-> ValidateOrganizationName(values.organizationName),
                            domain |-> cache'[domain],
                            username |-> IF userPending THEN "pending" ELSE Undefined]]
        /\ IF userPending \/ cache'[domain] = "pending"
           THEN /\ FreeKeys # {}
                /\ validationRuns' = MapSet(validationRuns, key,
                       [domain |-> domain, username |-> others.username,
                        userPending |-> userPending])
                /\ latestRun' = key
                /\ formErrors' = ProcessErrors(recordLevelErrors', NoFieldErrors)
           ELSE /\ validationRuns' = validationRuns
                /\ latestRun' = 0
                /\ formErrors' = ProcessErrors(recordLevelErrors', latestValidation'.errors)
        /\ UNCHANGED <<validationRejected, deferredSubmits, onSubmitCount, lastPayload>>

\* The user changes the value of a field.
ChangeField(name, value) ==
    /\ name \in AllFields
    /\ value \in FieldValues(name)
    /\ value # Values(domainValue, formValues)[name]
    /\ IF name = "domain"
       THEN domainValue' = value /\ formValues' = formValues
       ELSE domainValue' = domainValue /\ formValues' = [formValues EXCEPT ![name] = value]
    /\ RunValidation(domainValue', formValues')
    /\ formLast' = NoFormEvent("change")
    /\ UNCHANGED <<cfg, storeConfig, userNameValidationConfig, passwordValidationConfig, generatorCall,
                   NotFormVars>>

\* The user presses the generate button: form.mutators.setRandomPassword
\* ("password"), and the validation the form library runs after a mutator.
SetRandomPassword ==
    /\ generatorCall' = <<GeneratorArguments(passwordValidationConfig)>>
    /\ formValues' = [formValues EXCEPT !.password = GeneratePassword(generatorCall'[1])]
    /\ domainValue' = domainValue
    /\ RunValidation(domainValue', formValues')
    /\ formLast' = NoFormEvent("generate")
    /\ UNCHANGED <<cfg, storeConfig, userNameValidationConfig, passwordValidationConfig, NotFormVars>>

\* The validation runs of runs whose promises have all resolved, c being
\* the cache of validateDomain, are cleared; the last run started writes
\* the field errors lv.errors; the submits that waited for runs that are
\* all cleared now submit again.
CompleteRuns(c, runs, lv, event) ==
    LET done == {k \in DOMAIN runs : ~runs[k].userPending /\ c[runs[k].domain] # "pending"}
        waiting == [i \in 1..Len(deferredSubmits) |-> deferredSubmits[i] \ done]
        fired == {i \in 1..Len(deferredSubmits) : waiting[i] = {}}
        kept == SelectSeq(waiting, LAMBDA w : w # {})
        attempt == ApiSubmit(formErrors', validationRuns', validationRejected)
    IN  /\ validationRuns' = Restrict(runs, DOMAIN runs \ done)
        /\ latestRun' = IF latestRun \in done THEN 0 ELSE latestRun
        /\ formErrors' = IF latestRun \in done
                         THEN ProcessErrors(recordLevelErrors, lv.errors)
                         ELSE formErrors
        /\ IF fired = {}
           THEN /\ deferredSubmits' = kept
                /\ formLast' = event
                /\ UNCHANGED <<onSubmitCount, lastPayload>>
           ELSE /\ deferredSubmits' =
                       IF attempt = "deferred"
                       THEN kept \o [i \in 1..Cardinality(fired) |-> DOMAIN validationRuns']
                       ELSE kept
                /\ onSubmitCount' = IF attempt = "accepted"
                                    THEN AddCalls(onSubmitCount, Cardinality(fired))
                                    ELSE onSubmitCount
                /\ lastPayload' = IF attempt = "accepted"
                                  THEN <<HandleSubmit(Values(domainValue, formValues))>>
                                  ELSE lastPayload
                /\ formLast' = [event EXCEPT !.attempt = attempt,
                                   !.called = IF attempt = "accepted"
                                              THEN Cardinality(fired) ELSE 0]

\* getTenantDomainAvailability(value) settles: the promise validateDomain
\* returned for the value resolves.
TenantDomainSettles(value, outcome) ==
    /\ RemoteSettleCallback(value, outcome)
    /\ latestValidation' =
           IF latestValidation.values.domain = value
           THEN [latestValidation EXCEPT !.errors.domain = cache'[value]]
           ELSE latestValidation
    /\ CompleteRuns(cache', validationRuns, latestValidation', NoFormEvent("domainSettles"))
    /\ UNCHANGED <<userNameValidationConfig, passwordValidationConfig, formValues,
                   recordLevelErrors, validationRejected, generatorCall, NotFormVars>>

\* getUsertoreUsernameValidationPattern() of the username validator of run
\* k settles.  The validator has no catch: when the call rejects, the
\* promise of the validator rejects, and with it the run.
UsernamePatternSettles(k, outcome) ==
    /\ k \in DOMAIN validationRuns
    /\ validationRuns[k].userPending
    /\ IF outcome = "reject"
       THEN /\ validationRejected' = TRUE
            /\ validationRuns' = Restrict(validationRuns, DOMAIN validationRuns \ {k})
            /\ latestRun' = IF latestRun = k THEN 0 ELSE latestRun
            /\ latestValidation' =
                   IF latestRun = k
                   THEN [latestValidation EXCEPT !.errors.username = "rejected"]
                   ELSE latestValidation
            /\ deferredSubmits' = SelectSeq(deferredSubmits, LAMBDA w : k \notin w)
            /\ formLast' = FormEvent("usernameSettles", "none", 0,
                                     validationRuns[k].username, outcome, "rejected")
            /\ UNCHANGED <<formErrors, onSubmitCount, lastPayload>>
       ELSE LET result == ValidateUsernameAgainstUserstoreRegExp(
                              validationRuns[k].username, outcome)
            IN  /\ validationRejected' = validationRejected
                /\ latestValidation' =
                       IF latestRun = k
                       THEN [latestValidation EXCEPT !.errors.username = result]
                       ELSE latestValidation
                /\ CompleteRuns(cache, [validationRuns EXCEPT ![k].userPending = FALSE],
                                latestValidation',
                                FormEvent("usernameSettles", "none", 0,
                                          validationRuns[k].username, outcome, result))
    /\ UNCHANGED <<domainVars, userNameValidationConfig, passwordValidationConfig,
                   formValues, recordLevelErrors, generatorCall, NotFormVars>>

\* The user submits the form.
SubmitTenantForm ==
    LET attempt == ApiSubmit(formErrors, validationRuns, validationRejected)
    IN  /\ attempt = "deferred" => Len(deferredSubmits) < MaxAttempts
        /\ deferredSubmits' = IF attempt = "deferred"
                              THEN Append(deferredSubmits, DOMAIN validationRuns)
                              ELSE deferredSubmits
        /\ onSubmitCount' = IF attempt = "accepted" THEN AddCalls(onSubmitCount, 1)
                            ELSE onSubmitCount
        /\ lastPayload' = IF attempt = "accepted"
                          THEN <<HandleSubmit(Values(domainValue, formValues))>>
                          ELSE lastPayload
        /\ formLast' = FormEvent("submit", attempt, IF attempt = "accepted" THEN 1 ELSE 0,
                                 <<>>, "none", Undefined)
        /\ UNCHANGED <<domainVars, userNameValidationConfig, passwordValidationConfig,
                       formValues, recordLevelErrors, formErrors, validationRuns, latestRun,
                       validationRejected, latestValidation, generatorCall, NotFormVars>>

DefaultUsernameConfig == [enableValidator |-> "true"]

DefaultPasswordConfig ==
    [minLength |-> "2", minLowerCaseCharacters |-> "1", minUpperCaseCharacters |-> "1",
     minNumbers |-> "1", minSpecialCharacters |-> "0", minUniqueCharacters |-> "1"]

DefaultFormConfig ==
    /\ userNameValidationConfig = DefaultUsernameConfig
    /\ passwordValidationConfig = DefaultPasswordConfig

\* The form as it is mounted, with initialValues {}.
FormInit ==
    /\ formValues = [f \in FormFields |-> <<>>]
    /\ recordLevelErrors = HandleValidate(Values(<<>>, formValues))
    /\ formErrors = ProcessErrors(recordLevelErrors, NoFieldErrors)
    /\ validationRuns = EmptyMap
    /\ latestRun = 0
    /\ validationRejected = FALSE
    /\ deferredSubmits = <<>>
    /\ latestValidation = [values |-> Values(<<>>, formValues), errors |-> NoFieldErrors]
    /\ onSubmitCount = 0
    /\ lastPayload = <<>>
    /\ generatorCall = <<>>
    /\ formLast = NoFormEvent("none")

\* The form after the user has typed a first name, a last name, an email
\* address and a password: validateDomain was called with the empty domain
\* at each of the four changes.
FormFilled ==
    /\ storeConfig = cfg
    /\ storeSeen = MapSet(EmptyMap, <<>>, cfg)
    /\ domainValue = <<>>
    /\ cache = MapSet(EmptyMap, <<>>, NoError)
    /\ calls = MapSet(EmptyMap, <<>>, 2)
    /\ bodyRuns = MapSet(EmptyMap, <<>>, 1)
    /\ remoteCalls = EmptyMap
    /\ remoteAnswer = EmptyMap
    /\ formValues = [f \in FormFields |->
                        IF f \in {"firstname", "lastname", "password"} THEN <<"a">>
                        ELSE IF f = "email" THEN <<"a", "@", "a">>
                        ELSE <<>>]
    /\ recordLevelErrors = HandleValidate(Values(<<>>, formValues))
    /\ formErrors = ProcessErrors(recordLevelErrors, NoFieldErrors)
    /\ validationRuns = EmptyMap
    /\ latestRun = 0
    /\ validationRejected = FALSE
    /\ deferredSubmits = <<>>
    /\ latestValidation = [values |-> Values(<<>>, formValues), errors |-> NoFieldErrors]
    /\ onSubmitCount = 0
    /\ lastPayload = <<>>
    /\ generatorCall = <<>>
    /\ formLast = NoFormEvent("change")

(***************************************************************************)
(* generateTheme(branding, direction)                                      *)
(*                                                                         *)
(* The branding argument is held as a record: level names the innermost    *)
(* object of the chain branding.themePreference.preference.theme that is   *)
(* there, activeTheme is theme.activeTheme, LIGHT and DARK are the theme   *)
(* configurations theme.LIGHT and theme.DARK.  In a theme configuration a  *)
(* colour is Undefined when a link of its chain is missing (every link of  *)
(* the colour chains is read with ?.), and typography says how far the     *)
(* chain typography.font.fontFamily goes.                                  *)
(***************************************************************************)
BrandingLevels == {"undefined", "branding", "themePreference", "preference", "theme"}

ActiveThemes == {Undefined, "LIGHT", "DARK", "dark"}

Typographies == {"undefined", "noFont", "noFontFamily", "Arial"}

NoThemeConfig ==
    [present |-> FALSE, primary |-> Undefined, body |-> Undefined, surface |-> Undefined,
     typography |-> "undefined"]

ThemeConfigs ==
    {NoThemeConfig} \cup
    [present : {TRUE}, primary : {Undefined, "#111111"}, body : {Undefined, "#222222"},
     surface : {Undefined, "#333333"}, typography : Typographies]

NoBranding(level) ==
    [level |-> level, activeTheme |-> Undefined, LIGHT |-> NoThemeConfig, DARK |-> NoThemeConfig]

Brandings ==
    {NoBranding(level) : level \in BrandingLevels \ {"theme"}}
    \cup [level : {"theme"}, activeTheme : ActiveThemes, LIGHT : ThemeConfigs,
          DARK : ThemeConfigs]

Directions == {"ltr", "rtl"}

\* String.prototype.toLowerCase and toUpperCase, on the names above.
ToLowerCase(text) ==
    CASE text \in {"LIGHT", "light"} -> "light"
      [] text \in {"DARK", "dark"}   -> "dark"

ToUpperCase(text) ==
    CASE text \in {"LIGHT", "light"} -> "LIGHT"
      [] text \in {"DARK", "dark"}   -> "DARK"

\* A call that ended with a TypeError.
Thrown ==
    [threw |-> TRUE, direction |-> "none", darkMain |-> "none", darkMainWrapper |-> "none",
     darkNavbar |-> "none", darkStop1 |-> "none", darkStop2 |-> "none",
     darkPrimary |-> "none", lightMain |-> "none", lightMainWrapper |-> "none",
     lightNavbar |-> "none", lightStop1 |-> "none", lightStop2 |-> "none",
     lightPrimary |-> "none", appBar |-> "none", fontFamily |-> "none"]

\* value ?? fallback
Coalesce(value, fallback) == IF value = Undefined THEN fallback ELSE value

\* The argument generateTheme hands to extendTheme, or Thrown.
GenerateTheme(b, direction) ==
    IF b.level = "theme" /\ b.activeTheme = Undefined
    THEN Thrown                        \* undefined.toLowerCase()
    ELSE
    LET mode == IF b.level = "theme" THEN ToLowerCase(b.activeTheme) ELSE "light"
    IN  IF b.level = "preference"
        THEN Thrown                    \* undefined[mode.toUpperCase()]
        ELSE
        LET brandingTheme == IF b.level = "theme" THEN b[ToUpperCase(mode)]
                             ELSE NoThemeConfig
        IN  IF brandingTheme.present /\ brandingTheme.typography \in {"undefined", "noFont"}
            THEN Thrown                \* undefined.font, undefined.fontFamily
            ELSE
            [threw |-> FALSE,
             direction |-> direction,
             darkMain |-> Coalesce(brandingTheme.body, "var(--oxygen-palette-background-paper)"),
             darkMainWrapper |->
                 Coalesce(brandingTheme.surface, "var(--oxygen-palette-background-paper)"),
             darkNavbar |->
                 Coalesce(brandingTheme.surface, "var(--oxygen-palette-background-paper)"),
             darkStop1 |-> Coalesce(brandingTheme.primary, "#EB4F63"),
             darkStop2 |-> Coalesce(brandingTheme.primary, "#FA7B3F"),
             darkPrimary |-> Coalesce(brandingTheme.primary, "#ff7300"),
             lightMain |-> Coalesce(brandingTheme.body, "#FAF9F8"),
             lightMainWrapper |-> Coalesce(brandingTheme.surface, "#F6F4F2"),
             lightNavbar |-> Coalesce(brandingTheme.surface, "#F6F4F2"),
             lightStop1 |-> Coalesce(brandingTheme.primary, "#EB4F63"),
             lightStop2 |-> Coalesce(brandingTheme.primary, "#FA7B3F"),
             lightPrimary |-> Coalesce(brandingTheme.primary, "#ff7300"),
             appBar |-> Coalesce(brandingTheme.surface, "#F6F4F2"),
             fontFamily |->
                 IF brandingTheme.present /\ brandingTheme.typography # "noFontFamily"
                 THEN brandingTheme.typography
                 ELSE "Gilmer, sans-serif"]

NotCalled == [Thrown EXCEPT !.threw = FALSE]

\* generateTheme is called with the branding and a direction.
CallGenerateTheme(direction) ==
    /\ themeResult = NotCalled
    /\ themeResult' = GenerateTheme(branding, direction)
    /\ UNCHANGED <<branding, NotThemeVars>>

\* No call of generateTheme, in the specifications of the forms.
ThemeIdle ==
    /\ branding = NoBranding("undefined")
    /\ themeResult = NotCalled

(***************************************************************************)
(* Specifications                                                          *)
(***************************************************************************)
DefaultConfig == [mandatory |-> FALSE, regex |-> NoRegex, illegal |-> NoRegex]

InitDomain == cfg \in Configs /\ DomainInit /\ EmailInit /\ OrgInit /\ DebounceInit /\ DiscoveryInit /\ ThemeIdle
    /\ SubmitInit /\ DefaultFormConfig /\ FormInit

NextDomain ==
    \/ \E ch \in Alphabet : TypeChar(ch)
    \/ Backspace
    \/ Revalidate
    \/ \E v \in DomainValues, o \in RemoteOutcomes : RemoteSettle(v, o)

SpecDomain == InitDomain /\ [][NextDomain]_vars

\* The domain field while the configuration in the store changes under
\* the mounted form.
StrictConfig == [mandatory |-> TRUE, regex |-> "^[a.]+$", illegal |-> "[_]"]

StoreConfigs == {DefaultConfig, StrictConfig}

InitStore == cfg \in StoreConfigs /\ DomainInit /\ EmailInit /\ OrgInit /\ DebounceInit
    /\ DiscoveryInit /\ ThemeIdle /\ SubmitInit /\ DefaultFormConfig /\ FormInit

\* The characters typed while the store changes: a value of them has no
\* error under DefaultConfig and lacks the extension under StrictConfig.
StoreAlphabet == {"a"}

NextStore ==
    \/ \E ch \in StoreAlphabet : TypeChar(ch)
    \/ Backspace
    \/ Revalidate
    \/ \E v \in DomainValues, o \in RemoteOutcomes : RemoteSettle(v, o)
    \/ \E c \in StoreConfigs : StoreConfigChanges(c)

SpecStore == InitStore /\ [][NextStore]_vars

InitEmail == cfg = DefaultConfig /\ DomainInit /\ EmailInit /\ OrgInit /\ DebounceInit /\ DiscoveryInit /\ ThemeIdle
    /\ SubmitInit /\ DefaultFormConfig /\ FormInit

NextEmail ==
    \/ \E e \in EmailEntries : InsertEmailDomain(e)
    \/ \E i \in 1..MaxDomains : RemoveEmailDomain(i)
    \/ EmailOnInputChange
    \/ \E k \in 1..MaxPending, o \in EmailOutcomes : EmailCheckSettle(k, o)

SpecEmail == InitEmail /\ [][NextEmail]_vars

\* The email-domain field with every call of checkEmailDomainAvailable
\* answered in the end.
InitEmailLive == InitEmail

NextEmailLive ==
    \/ \E e \in EmailEntries : InsertWhenSettled(e)
    \/ \E i \in 1..MaxDomains : RemoveEmailDomain(i)
    \/ EmailOnInputChange
    \/ \E k \in 1..MaxPending, o \in EmailOutcomes : EmailCheckSettle(k, o)

EveryCheckAnswers ==
    \A k \in 1..MaxPending : WF_vars(\E o \in EmailOutcomes : EmailCheckSettle(k, o))

SpecEmailLive == InitEmailLive /\ [][NextEmailLive]_vars /\ EveryCheckAnswers

InitOrg == cfg = DefaultConfig /\ DomainInit /\ EmailInit /\ OrgInit /\ DebounceInit /\ DiscoveryInit /\ ThemeIdle
    /\ SubmitInit /\ DefaultFormConfig /\ FormInit

NextOrg ==
    \/ \E data \in FilterTexts \cup {Null} : HandleInputChange(data)
    \/ \E value \in {Null} \cup {o.name : o \in Organizations} : HandleOnChange(value)
    \/ LoadMoreOrganizations
    \/ \E r \in RequestKeys, page \in OrgPages, links \in LinkLists :
          OrgFetchSuccess(r, page, links)
    \/ \E r \in RequestKeys, error \in FetchErrors : OrgFetchFail(r, error)

SpecOrg == InitOrg /\ [][NextOrg]_vars

InitDebounce == InitOrg

NextDebounce ==
    \/ \E data \in InputData : InputEvent(data)
    \/ Rerender
    \/ DebounceFires
    \/ \E r \in RequestKeys, error \in FetchErrors : OrgFetchFail(r, error)

SpecDebounce == InitDebounce /\ [][NextDebounce]_vars

InitDiscovery == InitOrg

NextDiscovery ==
    \/ \E data \in DiscoveryData : DiscoveryLoaded(data)
    \/ LoadMoreOrganizations
    \/ \E r \in RequestKeys, page \in OrgPages, links \in LinkLists :
          OrgFetchSuccess(r, page, links)

SpecDiscovery == InitDiscovery /\ [][NextDiscovery]_vars

InitSubmit ==
    /\ cfg = DefaultConfig
    /\ DomainInit /\ EmailInit /\ OrgLoaded /\ DebounceInit /\ DiscoveryInit /\ ThemeIdle /\ SubmitInit
    /\ DefaultFormConfig /\ FormInit

NextSubmit ==
    \/ \E e \in {e \in EmailEntries : FormValidationDomain(e)} : InsertEmailDomain(e)
    \/ \E i \in 1..MaxDomains : RemoveEmailDomain(i)
    \/ EmailOnInputChange
    \/ \E k \in 1..MaxPending, o \in {"true", "false"} : EmailCheckSettle(k, o)
    \/ \E value \in {o.name : o \in Organizations} : SelectOrganization(value)
    \/ Submit
    \/ \E k \in 1..MaxSubmits, o \in AssociationOutcomes : AssociationSettles(k, o)

SpecSubmit == InitSubmit /\ [][NextSubmit]_vars

\* The submission with one email domain to enter and every availability
\* check answering available.
InitAssociate == InitSubmit

NextAssociate ==
    \/ \E e \in {"a.com"} : InsertEmailDomain(e)
    \/ \E i \in 1..MaxDomains : RemoveEmailDomain(i)
    \/ \E k \in 1..MaxPending, o \in {"true"} : EmailCheckSettle(k, o)
    \/ \E value \in {o.name : o \in Organizations} \cup {Null} : SelectOrganization(value)
    \/ Submit
    \/ \E k \in 1..MaxSubmits, o \in AssociationOutcomes : AssociationSettles(k, o)

SpecAssociate == InitAssociate /\ [][NextAssociate]_vars

\* The assigner from its mount to the submit, with the filter text
\* changing and with a server that lists two organizations of one name, of
\* which one is discoverable already.
TwinOrganization == [id |-> "o3", name |-> "acme"]

LookupPages ==
    {<<[id |-> "o1", name |-> "acme"]>>, <<[id |-> "o2", name |-> "beta"]>>,
     <<[id |-> "o1", name |-> "acme"], TwinOrganization>>}

LookupDiscovery ==
    [defined |-> TRUE, listed |-> TRUE,
     organizations |-> {[organizationId |-> "o1", organizationName |-> "acme"]}]

InitLookup == InitOrg

NextLookup ==
    \/ \E data \in {"a", "b"} : HandleInputChange(data)
    \/ \E r \in RequestKeys, page \in LookupPages : OrgFetchSuccess(r, page, <<>>)
    \/ \E r \in RequestKeys :
          OrgFetchFail(r, [description |-> Undefined, message |-> Undefined])
    \/ \E data \in {LookupDiscovery} : DiscoveryLoaded(data)
    \/ \E e \in {"a.com"} : InsertEmailDomain(e)
    \/ \E k \in 1..MaxPending, o \in {"true"} : EmailCheckSettle(k, o)
    \/ \E value \in {"acme", "beta"} : SelectOrganization(value)
    \/ Submit

SpecLookup == InitLookup /\ [][NextLookup]_vars

\* generateTheme, called once with each branding.
InitTheme ==
    /\ cfg = DefaultConfig
    /\ DomainInit /\ EmailInit /\ OrgInit /\ DebounceInit /\ DiscoveryInit /\ SubmitInit
    /\ DefaultFormConfig /\ FormInit
    /\ branding \in Brandings
    /\ themeResult = NotCalled

NextTheme == \E direction \in Directions : CallGenerateTheme(direction)

SpecTheme == InitTheme /\ [][NextTheme]_vars

\* The tenant form with the username validator on or off.
InitUsername ==
    /\ cfg = DefaultConfig
    /\ DomainInit /\ EmailInit /\ OrgInit /\ DebounceInit /\ DiscoveryInit /\ ThemeIdle /\ SubmitInit
    /\ userNameValidationConfig \in UsernameConfigs
    /\ passwordValidationConfig = DefaultPasswordConfig
    /\ FormInit

NextUsername ==
    \/ \E name \in {"username", "organizationName", "email"}, value \in UsernameValues \cup OrganizationNameValues :
          ChangeField(name, value)
    \/ \E k \in 1..MaxRuns, o \in UsernamePatternOutcomes : UsernamePatternSettles(k, o)

SpecUsername == InitUsername /\ [][NextUsername]_vars

\* The tenant form with the synchronous checks only: the userstore
\* validation is enabled and no domain is entered that passes the
\* synchronous rules of validateDomain.
InitValidate ==
    /\ cfg = DefaultConfig
    /\ DomainInit /\ EmailInit /\ OrgInit /\ DebounceInit /\ DiscoveryInit /\ ThemeIdle /\ SubmitInit
    /\ DefaultFormConfig
    /\ FormInit

NextValidate ==
    \/ \E name \in FormFields, value \in TextValues \cup EmailValues \cup OrganizationNameValues :
          ChangeField(name, value)
    \/ \E value \in {<<>>, <<".">>} : ChangeField("domain", value)
    \/ SubmitTenantForm

SpecValidate == InitValidate /\ [][NextValidate]_vars

\* The generate button under every password policy.
InitPassword ==
    /\ cfg = DefaultConfig
    /\ DomainInit /\ EmailInit /\ OrgInit /\ DebounceInit /\ DiscoveryInit /\ ThemeIdle /\ SubmitInit
    /\ userNameValidationConfig = DefaultUsernameConfig
    /\ passwordValidationConfig \in PasswordConfigs
    /\ FormInit

NextPassword ==
    \/ SetRandomPassword
    \/ \E name \in {"password", "firstname", "email"}, value \in EmailValues :
          ChangeField(name, value)

SpecPassword == InitPassword /\ [][NextPassword]_vars

\* The tenant form with its async validators: the userstore validation is
\* disabled, and the fields with a synchronous check only are filled in.
InitTenant ==
    /\ cfg = DefaultConfig
    /\ EmailInit /\ OrgInit /\ DebounceInit /\ DiscoveryInit /\ ThemeIdle /\ SubmitInit
    /\ userNameValidationConfig = [enableValidator |-> "false"]
    /\ passwordValidationConfig = DefaultPasswordConfig
    /\ FormFilled

NextTenant ==
    \/ \E value \in {<<"A", "!">>, <<"A", " ", "C">>} : ChangeField("organizationName", value)
    \/ \E value \in {<<"a">>, <<".">>} : ChangeField("domain", value)
    \/ \E value \in {<<"a">>, <<"a", "@", "a">>} : ChangeField("username", value)
    \/ \E v \in FormDomainValues, o \in {"true", "false"} : TenantDomainSettles(v, o)
    \/ \E k \in 1..MaxRuns, o \in UsernamePatternOutcomes : UsernamePatternSettles(k, o)
    \/ SubmitTenantForm

SpecTenant == InitTenant /\ [][NextTenant]_vars

(***************************************************************************)
(* Claims about validateDomain (SpecDomain)                                *)
(***************************************************************************)
\* The rules of the contract, by rank, stated on the value itself.
\* 1 mandatory extension, 2 configured pattern, 3 leading dot,
\* 4 illegal characters, 5 remote availability.
FailedSyncRules(c, v) ==
    {k \in 1..4 :
        \/ k = 1 /\ c.mandatory /\ ~(\E i \in 2..Len(v) : v[i] = ".")
        \/ k = 2 /\ c.regex # NoRegex /\ ~RegExpTest(c.regex, v)
        \/ k = 3 /\ v[1] = "."
        \/ k = 4 /\ c.illegal # NoRegex /\ RegExpTest(c.illegal, v)}

FailedRules(c, v, outcome) ==
    FailedSyncRules(c, v) \cup (IF outcome \in {"false", "reject"} THEN {5} ELSE {})

RuleError(k) ==
    CASE k = 1 -> DomainMandatoryExtension
      [] k = 2 -> DomainInvalidPattern
      [] k = 3 -> DomainStartingWithDot
      [] k = 4 -> DomainInvalidCharPattern
      [] k = 5 -> DomainUnavailable

FirstOf(S) == CHOOSE k \in S : \A j \in S : k <= j

SettledValues == {v \in DOMAIN cache : v # <<>> /\ cache[v] # "pending"}

\* C1: the promise validateDomain returned for a non-empty value resolves
\* with the error of the first rule, in the order extension, pattern,
\* leading dot, illegal characters, availability, that the value fails, and
\* with no error only when it fails none (the remote call answered true).
C1_FirstFailingRule ==
    \A v \in SettledValues :
        LET F == FailedRules(cfg, v, MapGet(remoteAnswer, v, "none"))
        IN  IF F = {}
            THEN cache[v] = NoError /\ MapGet(remoteAnswer, v, "none") = "true"
            ELSE cache[v] = RuleError(FirstOf(F))

\* A value that fails the pattern rule and the leading-dot rule got the
\* pattern error.
C1_Witness ==
    \E v \in SettledValues :
        /\ {2, 3} \subseteq FailedSyncRules(cfg, v)
        /\ cache[v] = DomainInvalidPattern

\* C2: for a value that fails a synchronous rule the availability
\* collaborator is never invoked, and the call returns a promise already
\* resolved with a synchronous error.
C2_NoRemoteCallOnSyncFailure ==
    \A v \in DOMAIN cache :
        (v # <<>> /\ FailedSyncRules(cfg, v) # {}) =>
            /\ MapGet(remoteCalls, v, 0) = 0
            /\ cache[v] \in {RuleError(k) : k \in 1..4}

\* A value that fails only the illegal-characters rule was validated.
C2_Witness ==
    \E v \in DOMAIN cache :
        /\ v # <<>>
        /\ FailedSyncRules(cfg, v) = {4}
        /\ cache[v] = DomainInvalidCharPattern
        /\ MapGet(remoteCalls, v, 0) = 0

\* C3: a value that begins with "." is rejected under every configuration,
\* without the remote answer being able to make it valid.
C3_LeadingDotAlwaysFails ==
    \A v \in DOMAIN cache :
        (v # <<>> /\ v[1] = ".") => cache[v] \notin {NoError, "pending"}

\* With nothing configured a value beginning with "." got the leading-dot
\* error.
C3_Witness ==
    /\ cfg = [mandatory |-> FALSE, regex |-> NoRegex, illegal |-> NoRegex]
    /\ \E v \in DOMAIN cache :
          v # <<>> /\ v[1] = "." /\ Len(v) > 1 /\ cache[v] = DomainStartingWithDot

\* C4: when the remote availability call rejects, validateDomain resolves
\* with the domain-unavailable error, as it does when the call answers false.
C4_AvailabilityFailsClosed ==
    \A v \in DOMAIN remoteAnswer :
        remoteAnswer[v] \in {"false", "reject"} => cache[v] = DomainUnavailable

\* One remote call rejected and another one answered false.
C4_Witness ==
    /\ \E v \in DOMAIN remoteAnswer : remoteAnswer[v] = "reject"
    /\ \E v \in DOMAIN remoteAnswer : remoteAnswer[v] = "false"

\* C5: within one form instance the validator body runs, and the remote
\* availability check is issued, at most once per distinct value, however
\* often validateDomain is called with it.
C5_RemoteCheckOncePerValue ==
    \A v \in DOMAIN calls :
        MapGet(bodyRuns, v, 0) <= 1 /\ MapGet(remoteCalls, v, 0) <= 1

\* validateDomain was called again with a value whose remote check is still
\* awaited, and again with a value that is settled.
C5_Witness ==
    /\ \E v \in DOMAIN calls :
          calls[v] = 2 /\ cache[v] = "pending" /\ MapGet(remoteCalls, v, 0) = 1
    /\ \E v \in DOMAIN calls :
          calls[v] = 2 /\ cache[v] = DomainUnavailable /\ MapGet(remoteCalls, v, 0) = 1

\* The rules the configuration leaves out: 1 without the mandatory flag,
\* 2 without a domain pattern, 4 without an illegal-characters pattern.
SkippedRules(c) ==
    (IF c.mandatory THEN {} ELSE {1})
        \cup (IF c.regex = NoRegex THEN {2} ELSE {})
        \cup (IF c.illegal = NoRegex THEN {4} ELSE {})

\* What a value does to rule k, whatever is configured: the leading dot
\* and the remote answer need no configuration.
BreaksUnconfigurableRule(v, outcome) ==
    (IF v[1] = "." THEN {3} ELSE {}) \cup (IF outcome \in {"false", "reject"} THEN {5} ELSE {})

\* C28: a configuration value that is missing skips its own rule and no
\* other: a settled value never has the error of a rule that is not
\* configured, and it has an error whenever it begins with a dot, fails a
\* rule that is configured, or the remote check did not answer available,
\* the remote check being made for every value no applied rule fails.
C28_MissingConfigSkipsOwnRule ==
    /\ \A v \in SettledValues :
          /\ \A k \in SkippedRules(cfg) : cache[v] # RuleError(k)
          /\ BreaksUnconfigurableRule(v, MapGet(remoteAnswer, v, "none")) # {} =>
                cache[v] # NoError
          /\ (FailedSyncRules(cfg, v) \ SkippedRules(cfg)) # {} => cache[v] # NoError
    /\ \A v \in DOMAIN cache :
          (v # <<>> /\ v[1] # "." /\ (FailedSyncRules(cfg, v) \ SkippedRules(cfg)) = {}) =>
              MapGet(remoteCalls, v, 0) = 1

\* With nothing configured a value without a dot and with a character the
\* illegal-characters pattern would match passed all rules, the remote
\* check having been made, and a value with a leading dot failed.
C28_Witness ==
    /\ cfg = [mandatory |-> FALSE, regex |-> NoRegex, illegal |-> NoRegex]
    /\ \E v \in SettledValues :
          /\ \E i \in 1..Len(v) : v[i] = "_"
          /\ \A i \in 1..Len(v) : v[i] # "."
          /\ cache[v] = NoError
          /\ remoteCalls[v] = 1
    /\ \E v \in SettledValues : cache[v] = DomainStartingWithDot

\* C29: when the remote availability call rejected for a value, typing
\* that value again in the same form makes the remote check once more.
C29_RetypeChecksAgain ==
    [][(/\ domainValue' # domainValue
        /\ MapGet(remoteAnswer, domainValue', "none") = "reject") =>
          MapGet(remoteCalls', domainValue', 0) > MapGet(remoteCalls, domainValue', 0)]_vars

(***************************************************************************)
(* Claims about the email-domain field (SpecEmail)                         *)
(***************************************************************************)
InList(e, list) == \E i \in 1..Len(list) : list[i] = e

\* C6: when no validation is pending, every entry of the list that would be
\* submitted passed the format check and then a remote availability check.
\* Stated for the runs in which no remote call rejected, so that a violation
\* does not rest on what a rejection does (C7).
C6_CommittedListValidated ==
    (emailPending = <<>> /\ emailRejected = {}) =>
        \A i \in 1..Len(emailDomains) :
            FormValidationDomain(emailDomains[i]) /\ emailDomains[i] \in emailPassed

\* C7: when the remote check of a newly inserted entry rejects, the entry
\* is removed from the list, as when the check answers available = false.
\* Stated for an entry whose array is still the one in the state.
C7_RejectRemovesEntry ==
    (emailLast.op = "settle-insert" /\ emailLast.outcome = "reject" /\ emailLast.live) =>
        ~InList(emailLast.entry, emailDomains)

\* C8: an inserted entry that fails the format check is removed again, the
\* list is as before, the format flag is set, no remote call is made and the
\* availability flag is untouched; an inserted entry the remote check
\* reports unavailable is removed again, the availability flag is set and
\* the format flag is untouched.
C8_InsertionRollback ==
    /\ (emailLast.op = "insert" /\ ~FormValidationDomain(emailLast.entry)) =>
          /\ emailDomains = emailLast.before
          /\ isEmailDomainDataError
          /\ ~emailLast.remote
          /\ isEmailDomainAvailableError = emailLast.availFlag
    /\ (emailLast.op = "settle-insert" /\ emailLast.outcome = "false") =>
          /\ ~InList(emailLast.entry, emailDomains)
          /\ isEmailDomainAvailableError
          /\ isEmailDomainDataError = emailLast.dataFlag

\* C9: a change event validates nothing but the entry it inserted: the
\* removal of an entry runs neither check on an entry that stays.
C9_OnlyInsertedEntryValidated ==
    (emailLast.op \in {"insert", "remove"} /\ emailLast.validated # "") =>
        (emailLast.op = "insert" /\ emailLast.validated = emailLast.entry)

(***************************************************************************)
(* Claims about the organization loader (SpecOrg)                          *)
(***************************************************************************)
\* C10: every step that changes the filter text empties the accumulated
\* organizations and the cursor in the same step, and the request it causes
\* carries the new filter and no cursor.
C10_FilterChangeResets ==
    [][inputValue' # inputValue =>
          /\ organizations' = <<>>
          /\ afterCursor' = ""
          /\ params'.after = Null
          /\ \/ inputValue' = "" /\ params'.filter = ""
             \/ inputValue' # "" /\ params'.filter = QueryPrefix \o inputValue'
          /\ params'.shouldFetch
          /\ [filter |-> params'.filter, after |-> Null] \in orgRequests']_vars

\* The filter text was changed by an input change when organizations and a
\* cursor of the previous filter had been accumulated.
C10_Witness ==
    /\ orgLast.op = "inputChange"
    /\ orgLast.hadOrgs
    /\ orgLast.hadCursor
    /\ params.filter = QueryPrefix \o "b"
    /\ [filter |-> QueryPrefix \o "a", after |-> "c1"] \in orgRequests

\* C11: when the filter text changed while a page request of the previous
\* filter was in flight then, once no request is in flight any more, the
\* accumulated organizations hold no page that was returned for another
\* filter text than the current one.
C11_NoStalePageAppended ==
    orgRequests = {} => ~orgStale

\* C13: when a cursor is held and more pages are announced, loadMore
\* requests the page at that cursor with the filter text unchanged and
\* leaves the accumulated organizations alone; the page that answers a
\* request with a cursor is appended after everything accumulated before.
C13_LoadMoreAppendsNextPage ==
    [][/\ (orgLast'.op = "loadMore" /\ hasMoreOrganizations /\ afterCursor \in Cursors) =>
             /\ inputValue' = inputValue
             /\ organizations' = organizations
             /\ params'.after = afterCursor
             /\ FilterTextOf(params'.filter) = inputValue
             /\ params'.shouldFetch
             /\ [filter |-> params'.filter, after |-> afterCursor] \in orgRequests'
       /\ (orgLast'.op = "page" /\ orgLast'.after \in Cursors) =>
             organizations' = organizations \o orgLast'.page]_vars

\* The page at the cursor of the first page arrived and was appended after
\* the organization of the first page.
C13_Witness ==
    /\ orgLast.op = "page"
    /\ orgLast.after = "c1"
    /\ orgLast.hadOrgs
    /\ orgLast.hadCursor
    /\ ~orgStale
    /\ organizations = <<[id |-> "o1", name |-> "acme"], [id |-> "o2", name |-> "beta"]>>
    /\ orgLast.page = <<[id |-> "o2", name |-> "beta"]>>

\* C14: loadMore while hasMoreOrganizations is false changes neither the
\* accumulated organizations, the cursor, the filter text nor the request
\* parameters, issues no request and raises no alert.
C14_LoadMoreWhenExhaustedIsNoOp ==
    [][(orgLast'.op = "loadMore" /\ ~hasMoreOrganizations) =>
          /\ UNCHANGED <<organizations, afterCursor, inputValue, params, orgRequests,
                         hasMoreOrganizations>>
          /\ orgAlert' = <<>>]_vars

\* loadMore ran after the last page had arrived, with organizations
\* accumulated and no request in flight.
C14_Witness ==
    /\ orgLast.op = "loadMore"
    /\ ~hasMoreOrganizations
    /\ orgLast.hadOrgs
    /\ ~params.shouldFetch
    /\ orgRequests = {}

\* C15: a page that arrives is appended to the end of the accumulated
\* organizations: what was accumulated stays, in its order, entries with an
\* id that is accumulated already included; only a page, an input change
\* and a change of the selection change the accumulated organizations.
C15_PageIsAppended ==
    [][/\ orgLast'.op = "page" =>
             /\ Len(organizations') = Len(organizations) + Len(orgLast'.page)
             /\ \A i \in 1..Len(organizations) : organizations'[i] = organizations[i]
             /\ \A i \in 1..Len(orgLast'.page) :
                    organizations'[Len(organizations) + i] = orgLast'.page[i]
       /\ orgLast'.op \notin {"page", "inputChange", "onChange"} =>
             organizations' = organizations]_vars

\* A page brought an organization that was accumulated already, and it is
\* there twice.
C15_Witness ==
    /\ orgLast.op = "page"
    /\ orgLast.hadOrgs
    /\ orgLast.page # <<>>
    /\ Len(organizations) = 2
    /\ organizations[1] = organizations[2]

\* The cursor parameter of the href of a "next" link.
CursorParameter(href) == href[Len(href)]

C17_FetchFailureAlertsOnce ==
    [][orgLast'.op = "error" =>
          /\ Len(orgAlert') = 1
          /\ orgAlert'[1].level = "error"
          /\ IF orgLast'.error.description # Undefined
             THEN /\ orgAlert'[1].description = orgLast'.error.description
                  /\ orgLast'.error.message # Undefined =>
                         orgAlert'[1].message = orgLast'.error.message
             ELSE /\ orgAlert'[1].description = "getOrganizationList.genericError.description"
                  /\ orgAlert'[1].message = "getOrganizationList.genericError.message"
          /\ UNCHANGED <<organizations, afterCursor, hasMoreOrganizations>>]_vars

\* A request failed with a described server error when organizations and a
\* cursor had been accumulated.
C17_Witness ==
    /\ orgLast.op = "error"
    /\ orgLast.error = [description |-> "server description", message |-> "server message"]
    /\ orgLast.hadOrgs
    /\ orgLast.hadCursor
    /\ Len(orgAlert) = 1
    /\ orgAlert[1].description = "server description"

(***************************************************************************)
(* Claims about the debounce of the input (SpecDebounce)                   *)
(***************************************************************************)
\* C12: a burst of input events, each less than 100 ms after the one before,
\* makes the callback run once: never more than once while the burst lasts
\* and, when no timer is pending any more, exactly once and with the text
\* of the last event, also when the component rendered between the events.
C12_BurstIsOneTransition ==
    /\ burst.fired <= 1
    /\ (burst.events > 0 /\ ~TimerPending) =>
          /\ burst.fired = 1
          /\ inputValue = (IF burst.last = Null THEN "" ELSE burst.last)

(***************************************************************************)
(* Claims about the offered organizations (SpecDiscovery)                  *)
(***************************************************************************)
\* The organizations of a sequence whose id is not among ids, in order.
RECURSIVE Without(_, _)
Without(orgs, ids) ==
    IF orgs = <<>> THEN <<>>
    ELSE (IF Head(orgs).id \in ids THEN <<>> ELSE <<Head(orgs)>>) \o Without(Tail(orgs), ids)

DiscoverableIds ==
    IF discoverableOrganizations.defined /\ discoverableOrganizations.listed
    THEN {d.organizationId : d \in discoverableOrganizations.organizations}
    ELSE {}

\* C18: the organizations offered for selection are the accumulated ones,
\* in their order, without those whose id is the organizationId of an
\* organization that is discoverable already.
C18_OfferedIsAccumulatedMinusDiscoverable ==
    FilteredDiscoverableOrganizations(organizations, discoverableOrganizations)
        = Without(organizations, DiscoverableIds)

\* Two organizations are accumulated, the first of them is discoverable
\* already and the second one is the only one offered.
C18_Witness ==
    /\ Len(organizations) = 2
    /\ organizations[1].id \in DiscoverableIds
    /\ organizations[2].id \notin DiscoverableIds
    /\ FilteredDiscoverableOrganizations(organizations, discoverableOrganizations)
          = <<organizations[2]>>

(***************************************************************************)
(* Claims about the submission (SpecSubmit)                                *)
(***************************************************************************)
\* C19: while an addOrganizationEmailDomain request is in flight the
\* submission is disabled, so that there is never more than one such
\* request in flight.
C19_OneAssociationRequestInFlight ==
    /\ Len(submitRequests) <= 1
    /\ (submitRequests # <<>> /\ navigatedTo = "") => submitDisabled

\* C20: the submit button is enabled only when the email-domain list is
\* not empty and an organization name is selected.
C20_EnabledOnlyWithDomainsAndOrganization ==
    (navigatedTo = "" /\ ~submitDisabled) =>
        (emailDomains # <<>> /\ organizationName # "")

\* C21: when the association request rejects, the error alert is the only
\* effect: the email domains, the selected organization, the loader with
\* its pagination and the button stay as they are and the form is not left;
\* when it resolves, the success alert is raised and the page of the
\* organization of the request is opened.
C21_RejectOnlyAlerts ==
    [][\A k \in 1..MaxSubmits :
          /\ AssociationSettles(k, "reject") =>
                /\ submitAlert' = "error"
                /\ UNCHANGED <<emailVars, organizationName, orgVars, navigatedTo,
                               submitDisabled, submitting>>
          /\ AssociationSettles(k, "resolve") =>
                /\ submitAlert' = "success"
                /\ navigatedTo' = submitRequests[k].organizationId]_vars

\* A request was rejected: the error alert is up, the form is still there
\* with its email domains and its organization, and the button is enabled.
C21_Witness ==
    /\ submitAlert = "error"
    /\ navigatedTo = ""
    /\ submitRequests = <<>>
    /\ emailDomains # <<>>
    /\ organizationName = "acme"
    /\ ~submitDisabled

(***************************************************************************)
(* Claims about the tenant form                                            *)
(***************************************************************************)
\* C22: with the userstore validation disabled (enableValidator "false")
\* the validator runs for every non-empty username and, the pattern having
\* arrived, passes it exactly when it matches the pattern and is a valid
\* email address; with the validation enabled no validator runs for the
\* username, whose only error is the one of the required check.
C22_UsernamePatternAndEmail ==
    /\ (formLast.op = "usernameSettles" /\ formLast.outcome # "reject") =>
          /\ userNameValidationConfig.enableValidator = "false"
          /\ formLast.value # <<>>
          /\ formLast.result = Undefined <=>
                (/\ ValidateInputAgainstRegEx(formLast.value, formLast.outcome)
                 /\ FormValidationEmail(formLast.value))
    /\ (userNameValidationConfig.enableValidator = "false" /\ formValues.username # <<>>) =>
          latestValidation.errors.username \in
              {"pending", "rejected"} \cup
              {ValidateUsernameAgainstUserstoreRegExp(formValues.username, p) :
                  p \in UsernamePatternOutcomes \ {"reject"}}
    /\ userNameValidationConfig.enableValidator = "true" =>
          /\ latestValidation.errors.username = Undefined
          /\ \A k \in DOMAIN validationRuns : ~validationRuns[k].userPending
          /\ formLast.op # "usernameSettles"
          /\ formErrors.username =
                 (IF formValues.username = <<>> THEN RequiredError("username") ELSE Undefined)

\* With the validation disabled a username that matches the pattern and is
\* no email address got the error.
C22_Witness ==
    /\ userNameValidationConfig.enableValidator = "false"
    /\ formLast.op = "usernameSettles"
    /\ formLast.value = <<"a">>
    /\ ValidateInputAgainstRegEx(formLast.value, formLast.outcome)
    /\ formLast.result = UsernameRegExViolation
    /\ formErrors.username = UsernameRegExViolation

\* C30: when the fetch of the username pattern rejects, the username
\* validator resolves with the error of the field.
C30_PatternFetchFailureIsFieldError ==
    (formLast.op = "usernameSettles" /\ formLast.outcome = "reject") =>
        formLast.result = UsernameRegExViolation

\* C23: the pattern of the organization name is a list of what is not
\* allowed: a non-empty name has the error exactly when the pattern matches
\* it; with the pattern [^a-zA-Z0-9 ] a name of letters and a space passes
\* and a name with "!" fails.
C23_OrganizationNameDisallowList ==
    LET name == formValues.organizationName
        error == latestValidation.errors.organizationName
    IN  /\ name # <<>> =>
              (error = OrganizationNameInvalidCharPattern
                  <=> RegExpTest(OrganizationNameRegex, name))
        /\ error \in {Undefined, OrganizationNameInvalidCharPattern}
        /\ name = <<"A", " ", "C">> => error = Undefined
        /\ name = <<"A", "!">> => error = OrganizationNameInvalidCharPattern
        /\ latestRun = 0 => formErrors.organizationName = error

\* The name with "!" was entered and the field has the error.
C23_Witness ==
    /\ formValues.organizationName = <<"A", "!">>
    /\ formErrors.organizationName = OrganizationNameInvalidCharPattern

CheckedFields == {"domain", "firstname", "lastname", "email", "password", "username"}

\* C24: handleValidate reports the required error for each of domain,
\* firstname, lastname, email, password and username exactly when the field
\* is empty, the invalid-email error exactly when the email is not empty
\* and not a valid address, and no other error.
C24_RequiredAndEmailErrors ==
    LET values == Values(domainValue, formValues)
    IN  /\ DOMAIN recordLevelErrors = CheckedFields
        /\ \A f \in CheckedFields :
              /\ recordLevelErrors[f] = RequiredError(f) <=> values[f] = <<>>
              /\ recordLevelErrors[f] \in {Undefined, RequiredError(f), EmailInvalid}
        /\ recordLevelErrors.email = EmailInvalid <=>
              (values.email # <<>> /\ ~FormValidationEmail(values.email))
        /\ \A f \in CheckedFields \ {"email"} : recordLevelErrors[f] # EmailInvalid

\* The email address is not valid, the username is empty and the other
\* fields are filled in.
C24_Witness ==
    /\ formValues.email = <<"a">>
    /\ recordLevelErrors.email = EmailInvalid
    /\ recordLevelErrors.username = RequiredError("username")
    /\ formValues.firstname # <<>>
    /\ recordLevelErrors.firstname = Undefined
    /\ domainValue # <<>>
    /\ recordLevelErrors.domain = Undefined

\* C25: props.onSubmit is called only with the payload of the current
\* values, when handleValidate reports no error for them and the validators
\* of the organization name, the domain and the username have run on them
\* and resolved without error; a submit made while one of them is pending
\* or reports an error does not call it; a submit calls it once or not at
\* all, and the submits that waited for validators call it once each or not
\* at all.
C25_OnSubmitOnlyWhenValid ==
    [][LET values == Values(domainValue', formValues')
           invalid(lv, record) ==
               \/ \E f \in DOMAIN lv.errors : lv.errors[f] # Undefined
               \/ \E f \in DOMAIN record : record[f] # Undefined
       IN  /\ formLast'.called > 0 =>
                 /\ ~invalid(latestValidation', HandleValidate(values))
                 /\ latestValidation'.values = values
                 /\ lastPayload' = <<HandleSubmit(values)>>
                 /\ onSubmitCount' = AddCalls(onSubmitCount, formLast'.called)
           /\ formLast'.called = 0 => UNCHANGED <<onSubmitCount, lastPayload>>
           /\ (formLast'.op = "submit" /\ invalid(latestValidation, recordLevelErrors)) =>
                 formLast'.called = 0
           /\ formLast'.op = "submit" =>
                 /\ formLast'.called \in {0, 1}
                 /\ formLast'.called = 1 <=> formLast'.attempt = "accepted"
           /\ formLast'.op \in {"domainSettles", "usernameSettles"} =>
                 /\ formLast'.called <= Len(deferredSubmits)
                 /\ Len(deferredSubmits') <= Len(deferredSubmits) - formLast'.called
           /\ formLast'.op \in {"change", "generate"} => formLast'.called = 0]_vars

\* A submit made while the username validator was pending called onSubmit
\* when the validator had resolved without error.
C25_Witness ==
    /\ formLast.op = "usernameSettles"
    /\ formLast.called = 1
    /\ formLast.result = Undefined
    /\ formValues.organizationName # <<>>
    /\ cache[domainValue] = NoError
    /\ domainValue # <<>>
    /\ onSubmitCount = 1

\* C26: a check of handleValidate that fails gives an error to the field
\* that fails and to no other, and the fields that pass have none; a submit
\* that the errors block changes the value of no field and no error, and a
\* change of a field changes the value of no other field.
C26_FailingCheckTouchesOwnFieldOnly ==
    [][LET values == Values(domainValue, formValues)
           values2 == Values(domainValue', formValues')
           passes(f) == /\ values2[f] # <<>>
                        /\ f = "email" => FormValidationEmail(values2[f])
       IN  /\ \A f \in CheckedFields : passes(f) => recordLevelErrors'[f] = Undefined
           /\ \A f \in CheckedFields :
                  (values2[f] = values[f] /\ formLast'.op \in {"change", "submit"}) =>
                      recordLevelErrors'[f] = recordLevelErrors[f]
           /\ (formLast'.op = "submit" /\ formLast'.attempt = "blocked") =>
                  /\ values2 = values
                  /\ UNCHANGED <<recordLevelErrors, formErrors>>
           /\ Cardinality({f \in AllFields : values2[f] # values[f]}) <= 1]_vars

\* A submit was blocked by the empty email address while the first name
\* and the username are filled in and have no error.
C26_Witness ==
    /\ formLast.op = "submit"
    /\ formLast.attempt = "blocked"
    /\ formValues.email = <<>>
    /\ formErrors.email = RequiredError("email")
    /\ formValues.firstname # <<>>
    /\ formErrors.firstname = Undefined
    /\ formValues.username # <<>>
    /\ formErrors.username = Undefined

PositiveNumbers == {"1", "2"}

\* C27: the generate button writes the string the generator returned into
\* the password field, as it is, and changes the value of no other field;
\* each character class is asked of the generator exactly when its minimum
\* in the policy is a number above 0.
C27_GenerateWritesPasswordOnly ==
    [][formLast'.op = "generate" =>
          /\ \A f \in FormFields \ {"password"} : formValues'[f] = formValues[f]
          /\ domainValue' = domainValue
          /\ Len(generatorCall') = 1
          /\ formValues'.password = GeneratePassword(generatorCall'[1])
          /\ LET args == generatorCall'[1]
                  c == passwordValidationConfig
              IN  /\ args.lowerCase <=> c.minLowerCaseCharacters \in PositiveNumbers
                  /\ args.upperCase <=> c.minUpperCaseCharacters \in PositiveNumbers
                  /\ args.numbers <=> c.minNumbers \in PositiveNumbers
                  /\ args.special <=> c.minSpecialCharacters \in PositiveNumbers]_vars

\* A password was generated under a policy with a minimum of 0 lower-case
\* letters, no minimum of digits and a minimum of two special characters,
\* the first name and the email address being filled in.
C27_Witness ==
    /\ formLast.op = "generate"
    /\ passwordValidationConfig.minLowerCaseCharacters = "0"
    /\ passwordValidationConfig.minNumbers = Undefined
    /\ passwordValidationConfig.minSpecialCharacters = "2"
    /\ ~generatorCall[1].lowerCase
    /\ ~generatorCall[1].numbers
    /\ generatorCall[1].special
    /\ formValues.password = GeneratePassword(generatorCall[1])
    /\ formValues.firstname # <<>>
    /\ formValues.email = <<"a">>

(***************************************************************************)
(* Claims about the selection of the organization                          *)
(***************************************************************************)
\* C35: a change event with an empty value empties the accumulated
\* organizations, the cursor and the filter text and requests the first
\* page without a filter, in the step of the event and with no timer of
\* the debounce involved; a change event with a name leaves the
\* accumulated organizations, the cursor, the filter text, the request
\* parameters and the requests as they are.
C35_ClearingSelectionResets ==
    [][/\ HandleOnChange(Null) =>
             /\ organizations' = <<>>
             /\ afterCursor' = ""
             /\ inputValue' = ""
             /\ params'.after = Null
             /\ params'.filter = ""
             /\ params'.shouldFetch
             /\ [filter |-> "", after |-> Null] \in orgRequests'
             /\ UNCHANGED debounceVars
       /\ \A value \in {o.name : o \in Organizations} :
             HandleOnChange(value) =>
                 UNCHANGED <<organizations, afterCursor, inputValue, params, orgRequests,
                             hasMoreOrganizations, debounceVars>>]_vars

\* The selection was cleared when organizations and a cursor had been
\* accumulated under a filter text.
C35_Witness ==
    /\ orgLast.op = "onChange"
    /\ orgLast.hadOrgs
    /\ orgLast.hadCursor
    /\ organizations = <<>>
    /\ afterCursor = ""
    /\ inputValue = ""
    /\ \E r \in orgRequests : r.filter \notin {"", Undefined}

(***************************************************************************)
(* Claims about the payload of the tenant form                             *)
(***************************************************************************)
\* C34: the payload handed to onSubmit has the domain of the form as its
\* domain, the organizationName of the form as its name, and one owner,
\* which carries the username, email, firstname, lastname and password of
\* the form as they are, the inline-password provisioning method and
\* nothing else.
C34_PayloadCarriesFormValues ==
    [][formLast'.called > 0 =>
          /\ Len(lastPayload') = 1
          /\ LET payload == lastPayload'[1]
             IN  /\ DOMAIN payload = {"domain", "name", "owners"}
                 /\ payload.domain = domainValue'
                 /\ payload.name = formValues'.organizationName
                 /\ Len(payload.owners) = 1
                 /\ DOMAIN payload.owners[1] = (FormFields \ {"organizationName"})
                                                   \cup {"provisioningMethod"}
                 /\ \A f \in FormFields \ {"organizationName"} :
                        payload.owners[1][f] = formValues'[f]
                 /\ payload.owners[1].provisioningMethod = InlinePassword]_vars

\* onSubmit was called for a form whose domain, organizationName and owner
\* values are all filled and differ from one another.
C34_Witness ==
    /\ formLast.called > 0
    /\ Len(lastPayload) = 1
    /\ domainValue # <<>>
    /\ formValues.organizationName # <<>>
    /\ formValues.organizationName # domainValue
    /\ \A f \in FormFields : formValues[f] # <<>>
    /\ formValues.email # formValues.password
    /\ lastPayload[1].owners[1].email = formValues.email

(***************************************************************************)
(* Claims about the configuration of the domain validator                  *)
(***************************************************************************)
\* C33: the configuration the domain validator of a form works with is
\* the one the store held when the form was created: no step changes it,
\* and whatever the store holds when the validator runs for a value, the
\* value gets the error the configuration of the creation gives it, or,
\* when that one gives none, the remote call and its answer.
C33_ValidatorKeepsCreationConfig ==
    [][/\ cfg' = cfg
       /\ \A v \in DOMAIN cache' \ {<<>>} :
             IF SyncError(cfg, v) # NoError
             THEN /\ cache'[v] = SyncError(cfg, v)
                  /\ MapGet(remoteCalls', v, 0) = 0
             ELSE /\ cache'[v] \in {"pending"} \cup
                                    {AvailabilityResult(o) : o \in RemoteOutcomes}
                  /\ MapGet(remoteCalls', v, 0) > 0]_vars

\* The validator ran for a value after the store had changed to a
\* configuration that decides the value differently.
C33_Witness ==
    \E v \in DOMAIN storeSeen \ {<<>>} :
        /\ storeSeen[v] # cfg
        /\ SyncError(storeSeen[v], v) # SyncError(cfg, v)
        /\ v \in DOMAIN cache
        /\ cache[v] # "pending"

(***************************************************************************)
(* Claims about the lookup of the organization at the submit               *)
(***************************************************************************)
\* C31: whenever the submit can run, an organization name being selected
\* and the email-domain list not being empty, the selected name is the
\* name of one of the accumulated organizations, so that handleSubmit
\* finds an organization to take the id from.
C31_SelectedNameIsAccumulated ==
    (navigatedTo = "" /\ ~submitDisabled /\ organizationName # "" /\ emailDomains # <<>>) =>
        \E i \in 1..Len(organizations) : organizations[i].name = organizationName

\* C32: when the submit sends a request for a selected name that is among
\* the names offered, the organization id of the request is the id of one
\* of the organizations offered, none of which is discoverable already.
C32_SentIdWasOffered ==
    [][(Submit /\ organizationName \in OfferedNames /\ submitRequests' # submitRequests) =>
          LET offered == FilteredDiscoverableOrganizations(organizations,
                                                           discoverableOrganizations)
              sent == submitRequests'[Len(submitRequests')]
          IN  /\ \E i \in 1..Len(offered) : offered[i].id = sent.organizationId
              /\ \A d \in discoverableOrganizations.organizations :
                     d.organizationId # sent.organizationId]_vars

(***************************************************************************)
(* Claims about the settling of the email-domain insertions                *)
(*   (SpecEmailLive)                                                       *)
(***************************************************************************)
InEmailDomains(e) == \E i \in 1..Len(emailDomains) : emailDomains[i] = e

\* The state right after the answer to the insertion of the entry e.
JustSettled(e) ==
    /\ emailLast.op = "settle-insert"
    /\ emailLast.entry = e

\* C36 as stated: after the answer to an insertion the entry is in the
\* list or an error flag is raised.
C36_SettledKeptOrFlagged ==
    \A e \in EmailEntries :
        JustSettled(e) =>
            \/ InEmailDomains(e)
            \/ isEmailDomainAvailableError
            \/ isEmailDomainDataError

\* C36, amended: with every call of checkEmailDomainAvailable answered in
\* the end, every insertion that waits for its answer gets it, and then the
\* entry is in the list, or it is out of the list with the availability
\* flag raised, or the user had taken it out of the list before the answer
\* came; an insertion of an entry that is no domain is settled in its own
\* step, with the entry out of the list and the data flag raised.
C36_InsertionSettles ==
    /\ \A e \in {e \in EmailEntries : FormValidationDomain(e)} :
          (PendingInsertions(e) # {}) ~>
              /\ JustSettled(e)
              /\ PendingInsertions(e) = {}
              /\ \/ InEmailDomains(e)
                 \/ isEmailDomainAvailableError
                 \/ \A i \in 1..Len(emailLast.before) : emailLast.before[i] # e
    /\ [](\A e \in EmailEntries :
            (emailLast.op = "insert" /\ emailLast.entry = e /\ ~emailLast.remote) =>
                (~InEmailDomains(e) /\ isEmailDomainDataError))

\* The answer to an insertion said that the domain is taken: the entry is
\* out of the list and the flag is raised.
C36_Witness ==
    /\ emailLast.op = "settle-insert"
    /\ emailLast.outcome = "false"
    /\ emailLast.live
    /\ ~InEmailDomains(emailLast.entry)
    /\ \E i \in 1..Len(emailLast.before) : emailLast.before[i] = emailLast.entry
    /\ isEmailDomainAvailableError
    /\ PendingInsertions(emailLast.entry) = {}

(***************************************************************************)
(* Claims about generateTheme (SpecTheme)                                  *)
(***************************************************************************)
\* The theme configuration the claim takes the values from: the one of
\* the active theme, light when no active theme is named.
ActiveBrandingTheme ==
    IF branding.level # "theme" THEN NoThemeConfig
    ELSE IF branding.activeTheme \in {"DARK", "dark"} THEN branding.DARK
    ELSE branding.LIGHT

\* C37: every call of generateTheme returns a theme; in it the primary
\* colour, the body background, the surface background and the font family
\* are those of the active branding theme where it has them and the
\* defaults where it has not, and both stops of the gradient are the
\* primary colour of the branding when there is one.
C37_GenerateThemeTotal ==
    themeResult # NotCalled =>
        /\ ~themeResult.threw
        /\ themeResult.lightPrimary = Coalesce(ActiveBrandingTheme.primary, "#ff7300")
        /\ themeResult.darkPrimary = themeResult.lightPrimary
        /\ themeResult.lightMain = Coalesce(ActiveBrandingTheme.body, "#FAF9F8")
        /\ themeResult.lightMainWrapper = Coalesce(ActiveBrandingTheme.surface, "#F6F4F2")
        /\ themeResult.appBar = themeResult.lightMainWrapper
        /\ themeResult.fontFamily =
               (IF ActiveBrandingTheme.typography \in {"undefined", "noFont", "noFontFamily"}
                THEN "Gilmer, sans-serif" ELSE ActiveBrandingTheme.typography)
        /\ ActiveBrandingTheme.primary # Undefined =>
               /\ themeResult.lightStop1 = ActiveBrandingTheme.primary
               /\ themeResult.lightStop2 = ActiveBrandingTheme.primary
               /\ themeResult.darkStop1 = ActiveBrandingTheme.primary
               /\ themeResult.darkStop2 = ActiveBrandingTheme.primary

====
